---- MODULE Spec2Model ----
(***************************************************************************)
(* Seat reservation, payment settlement and trip catalogue engine of the   *)
(* elitehub worker (src/auth.js).  The database tables are the shared      *)
(* state; every HTTP request is a process that executes its handler one    *)
(* database statement (one await) at a time, so requests interleave        *)
(* between statements exactly as the worker's cooperative scheduling       *)
(* allows.  Strings that the code inspects character by character (seat    *)
(* labels, external references) are sequences of one-character strings.    *)
(***************************************************************************)
EXTENDS Integers, Sequences, FiniteSets, TLC

\* ------------------------------------------------------------------ bounds
MaxNow == 10           \* the clock runs over 0..MaxNow minutes
TickMinutes == 5       \* the clock is observed every TickMinutes minutes
BusCapacity == 12      \* buses.capacity of the one bus of the model

\* ------------------------------------------------------- program constants
LockTtlMinutes == 5    \* datetime('now', '+5 minutes')
DefaultCapacity == 50  \* capacity = 50 when unknown

NULL == 0              \* SQL NULL / JS null for ids (falsy, like 0 in the code)
NoSeat == << >>        \* JS null returned for an invalid seat (falsy)

\* ------------------------------------------------------------------ strings
Digits == <<"0", "1", "2", "3", "4", "5", "6", "7", "8", "9">>
UpperLetters == <<"A", "B", "C", "D", "E", "F", "G", "H", "I", "J", "K", "L", "M",
                  "N", "O", "P", "Q", "R", "S", "T", "U", "V", "W", "X", "Y", "Z">>
LowerLetters == <<"a", "b", "c", "d", "e", "f", "g", "h", "i", "j", "k", "l", "m",
                  "n", "o", "p", "q", "r", "s", "t", "u", "v", "w", "x", "y", "z">>

IsDigit(c) == \E i \in 1..10 : Digits[i] = c
DigitVal(c) == (CHOOSE i \in 1..10 : Digits[i] = c) - 1
IsUpper(c) == \E i \in 1..26 : UpperLetters[i] = c
IsLower(c) == \E i \in 1..26 : LowerLetters[i] = c
\* charCodeAt(0) - 65 of an upper-case letter
LetterRow(c) == (CHOOSE i \in 1..26 : UpperLetters[i] = c) - 1
ToUpperChar(c) == IF IsLower(c) THEN UpperLetters[CHOOSE i \in 1..26 : LowerLetters[i] = c]
                  ELSE c
\* String.prototype.toUpperCase
ToUpperCase(s) == [i \in 1..Len(s) |-> ToUpperChar(s[i])]

RECURSIVE TrimLeft(_)
TrimLeft(s) == IF s # << >> /\ Head(s) = " " THEN TrimLeft(Tail(s)) ELSE s
RECURSIVE TrimRight(_)
TrimRight(s) == IF s # << >> /\ s[Len(s)] = " " THEN TrimRight(SubSeq(s, 1, Len(s) - 1))
                ELSE s
\* String.prototype.trim
Trim(s) == TrimRight(TrimLeft(s))

AllDigits(s) == \A i \in 1..Len(s) : IsDigit(s[i])
\* Number("<digits>")
RECURSIVE DigitsToNumber(_)
DigitsToNumber(s) == IF s = << >> THEN 0
                     ELSE DigitsToNumber(SubSeq(s, 1, Len(s) - 1)) * 10 + DigitVal(s[Len(s)])
\* String(n) for an integer n >= 0
RECURSIVE NumberToString(_)
NumberToString(n) == IF n < 10 THEN <<Digits[n + 1]>>
                     ELSE Append(NumberToString(n \div 10), Digits[(n % 10) + 1])

\* Number(capacity || 50)
EffectiveCapacity(capacity) == IF capacity = 0 THEN DefaultCapacity ELSE capacity

\* raw.match(/^L?0*(\d+)$/): the text after an optional leading "L" is a
\* non-empty run of digits; the captured number is its value.
NumericRest(raw) == IF raw # << >> /\ Head(raw) = "L" THEN Tail(raw) ELSE raw
\* a match that knows no "L" prefix: /^0*(\d+)$/
NumericMatchBare(raw) == raw # << >> /\ AllDigits(raw)
NumericMatch(raw) == NumericRest(raw) # << >> /\ AllDigits(NumericRest(raw))

RECURSIVE StripZeros(_)
StripZeros(s) == IF Len(s) > 1 /\ Head(s) = "0" THEN StripZeros(Tail(s)) ELSE s
\* raw.match(/^([A-Z])0*(\d{1,2})$/): a letter, then digits that leave at most
\* two digits once the zeros taken by 0* are dropped.
LegacyMatch(raw) == /\ Len(raw) >= 2
                    /\ IsUpper(Head(raw))
                    /\ AllDigits(Tail(raw))
                    /\ Len(StripZeros(Tail(raw))) <= 2

\* a normalizer whose numeric branch answers the zero-based index of the seat
normalizeSeatZeroBased(seatValue, capacity) ==
  LET raw == ToUpperCase(Trim(seatValue)) IN
  IF raw = << >> THEN NoSeat
  ELSE IF NumericMatch(raw)
       THEN LET n == DigitsToNumber(NumericRest(raw)) IN
            IF n < 1 \/ n > EffectiveCapacity(capacity) THEN NoSeat ELSE NumberToString(n - 1)
  ELSE IF LegacyMatch(raw)
       THEN LET row == LetterRow(Head(raw))
                col == DigitsToNumber(Tail(raw))
                n == row * 10 + col
            IN IF row < 0 \/ col < 1 \/ col > 10 THEN NoSeat
               ELSE IF n < 1 \/ n > EffectiveCapacity(capacity) THEN NoSeat
               ELSE NumberToString(n)
  ELSE NoSeat

normalizeSeatNumberRaw(seatValue, capacity) ==
  LET raw == ToUpperCase(Trim(seatValue)) IN
  IF raw = << >> THEN NoSeat
  ELSE IF NumericMatch(raw)
       THEN LET n == DigitsToNumber(NumericRest(raw)) IN
            IF n < 1 \/ n > EffectiveCapacity(capacity) THEN NoSeat ELSE NumberToString(n)
  ELSE IF LegacyMatch(raw)
       THEN LET row == LetterRow(Head(raw))
                col == DigitsToNumber(Tail(raw))
                n == row * 10 + col
            IN IF row < 0 \/ col < 1 \/ col > 10 THEN NoSeat
               ELSE IF n < 1 \/ n > EffectiveCapacity(capacity) THEN NoSeat
               ELSE NumberToString(n)
  ELSE NoSeat

\* canonicalSeatToLegacy of a canonical decimal seat string
canonicalSeatToLegacy(canonicalSeat) ==
  LET n == DigitsToNumber(canonicalSeat) IN
  IF ~AllDigits(canonicalSeat) \/ n < 1 THEN NoSeat
  ELSE LET row == (n - 1) \div 10
           col == ((n - 1) % 10) + 1
       IN IF row < 26 THEN <<UpperLetters[row + 1]>> \o NumberToString(col)
          ELSE <<"?">> \o NumberToString(col)

\* ------------------------------------------------------------------- state
VARIABLES
  now,              \* wall clock in minutes: datetime("now")
  trip_schedules,   \* sequence of rows, the index is the AUTOINCREMENT id
  buses,            \* busId -> [capacity, available_seats]
  seat_locks,       \* set of rows [id, bus_id, trip_id, seat_number, locked_by, expires_at]
  next_lock_id,     \* next rowid of seat_locks
  bookings,         \* set of rows [id, passenger_id, bus_id, trip_id, seat_number,
                    \*              price_paid, status, external_ref]
  next_booking_id,  \* next rowid of bookings
  passengers,       \* set of passenger ids
  next_passenger_id,
  booking_receipts, \* set of rows [booking_id, receipt_url]
  sms_outbox,       \* sequence of [booking_id, source]: messages handed to the SMS gateway
  auth_sessions,    \* set of rows [token, email, expires_at] (joined with users.email)
  schemaInitPromise, \* the module-level latch: NULL or the id of a promise
  promises,         \* promise id -> [state, stmt]: the runs of the initialisation body
  req               \* request slot -> the request's handler frame and response

vars == <<now, trip_schedules, buses, seat_locks, next_lock_id, bookings, next_booking_id,
          passengers, next_passenger_id, booking_receipts, sms_outbox, auth_sessions,
          schemaInitPromise, promises, req>>

\* the module-level latch of ensureOperationalSchema and the promises it has held
schema == <<schemaInitPromise, promises>>
\* a process whose first request has long been served: the latch holds the
\* fulfilled promise of the one initialisation, and ensureOperationalSchema
\* returns without a statement
SchemaStatements == 2    \* the statements of the initialisation body, cut to two
SchemaReady ==
  /\ schemaInitPromise = 1
  /\ promises = <<[state |-> "fulfilled", stmt |-> SchemaStatements]>>

db == <<trip_schedules, buses, seat_locks, next_lock_id, bookings, next_booking_id,
        passengers, next_passenger_id, booking_receipts, auth_sessions, schema>>

trips_buses == <<trip_schedules, buses>>
lock_tables == <<seat_locks, next_lock_id>>
booking_tables == <<bookings, next_booking_id>>
passenger_tables == <<passengers, next_passenger_id>>

Requests == DOMAIN req
TheBus == 1
NoPrice == -1          \* a request body without a finite price
\* lock owners invented by the server when the request carries no lockId:
\* `lock_${Date.now()}_${Math.random()...}`, distinct per request
GeneratedOwner(i) == <<"lock_gen_1", "lock_gen_2", "lock_gen_3", "lock_gen_4",
                       "lock_gen_5", "lock_gen_6">>[i]

\* The frame of a request that has not been issued.
NoReq == [kind |-> "none", pc |-> "idle",
          \* inputs
          busId |-> NULL, tripId |-> NULL, seats |-> << >>, lockId |-> "",
          paystackRef |-> "", price |-> NoPrice, unitPrice |-> 0, token |-> "",
          rawBody |-> "", signature |-> << >>, email |-> "", passwordValid |-> FALSE,
          \* locals of the handler
          tripKey |-> NULL, seatKeys |-> << >>, lockOwner |-> "", matchingLock |-> NULL,
          expiresAt |-> 0, ownedLocks |-> << >>, passengerId |-> NULL,
          createdBookingIds |-> << >>, idx |-> 0, existingRows |-> << >>,
          receiptUrl |-> "", count |-> 0, existingReceipt |-> FALSE,
          \* what the request did and answered
          effects |-> {}, paystack |-> "", amountKobo |-> 0, ownedProof |-> TRUE,
          status |-> 0, error |-> "", duplicate |-> FALSE, smsOk |-> TRUE,
          booking_ids |-> << >>, out_seats |-> << >>, out_price |-> 0, lock_id |-> "",
          out_token |-> "", trip_id |-> NULL, awaiting |-> NULL,
          available |-> {}, locked |-> {}, own_locked |-> {}, booked |-> {},
          retryOf |-> 0]

\* The frame once the handler has returned: locals are dropped, inputs, effects
\* and the response stay.
Returned(r, status, error) ==
  [r EXCEPT !.pc = "done", !.status = status, !.error = error,
            !.tripKey = NULL, !.seatKeys = << >>, !.lockOwner = "", !.matchingLock = NULL,
            !.expiresAt = 0, !.ownedLocks = << >>, !.passengerId = NULL,
            !.createdBookingIds = << >>, !.idx = 0, !.existingRows = << >>,
            !.receiptUrl = "", !.count = 0, !.existingReceipt = FALSE]

Idle(i) == req[i].pc = "idle"
Done(i) == req[i].pc = "done"
Quiescent == \A i \in Requests : req[i].pc \in {"idle", "done"}
\* requests are issued in slot order (slots are interchangeable)
MayIssue(i) == /\ Idle(i)
               /\ IF i = 1 THEN TRUE ELSE ~Idle(i - 1)

\* ------------------------------------------------------------ trip resolver
TripIds == 1..Len(trip_schedules)
\* a resolver whose second query is ORDER BY id ASC: the oldest active trip
resolveOldestTripForBus(busId, tripId) ==
  IF tripId # NULL
  THEN IF ~(tripId \in TripIds /\ trip_schedules[tripId].bus_id = busId)
       THEN [err |-> "Trip not found for bus", id |-> NULL]
       ELSE IF trip_schedules[tripId].status # "active"
            THEN [err |-> "Trip is not active", id |-> NULL]
            ELSE [err |-> "", id |-> tripId]
  ELSE LET active == {t \in TripIds : /\ trip_schedules[t].bus_id = busId
                                      /\ trip_schedules[t].status = "active"}
       IN IF active # {}
          THEN [err |-> "", id |-> CHOOSE t \in active : \A u \in active : t <= u]
          ELSE [err |-> "", id |-> NULL]

\* resolveTripForBus: [err |-> "" or the message thrown, id |-> trip id or NULL]
resolveTripForBus(busId, tripId) ==
  IF tripId # NULL
  THEN IF ~(tripId \in TripIds /\ trip_schedules[tripId].bus_id = busId)
       THEN [err |-> "Trip not found for bus", id |-> NULL]
       ELSE IF trip_schedules[tripId].status # "active"
            THEN [err |-> "Trip is not active", id |-> NULL]
            ELSE [err |-> "", id |-> tripId]
  ELSE LET active == {t \in TripIds : /\ trip_schedules[t].bus_id = busId
                                      /\ trip_schedules[t].status = "active"}
       IN IF active # {}
          THEN [err |-> "", id |-> CHOOSE t \in active : \A u \in active : u <= t]
          ELSE [err |-> "", id |-> NULL]

\* getBusCapacity: 0 stands for 'Bus not found'
getBusCapacity(busId) ==
  IF busId \notin DOMAIN buses THEN 0
  ELSE IF buses[busId].capacity > 0 THEN buses[busId].capacity ELSE DefaultCapacity

\* ------------------------------------------------------- table read helpers
\* uniqueNormalizedSeatList, as the set of its elements
uniqueNormalizedSeatList(rows, capacity) ==
  {normalizeSeatNumberRaw(r.seat_number, capacity) : r \in rows} \ {NoSeat}

listConfirmedSeatNumbersForBusTrip(busId, tripId, capacity) ==
  uniqueNormalizedSeatList(
    IF tripId # NULL
    THEN {b \in bookings : b.bus_id = busId /\ b.trip_id = tripId /\ b.status = "confirmed"}
    ELSE {b \in bookings : b.bus_id = busId /\ b.status = "confirmed"},
    capacity)

listActiveLocksForBusTrip(busId, tripId) ==
  IF tripId # NULL
  THEN {l \in seat_locks : l.bus_id = busId /\ l.trip_id = tripId /\ l.expires_at > now}
  ELSE {l \in seat_locks : l.bus_id = busId /\ l.expires_at > now}

listActiveLockedSeatNumbersForBusTrip(busId, tripId, capacity) ==
  uniqueNormalizedSeatList(listActiveLocksForBusTrip(busId, tripId), capacity)

hasConfirmedSeat(busId, tripId, seatKey, capacity) ==
  seatKey \in listConfirmedSeatNumbersForBusTrip(busId, tripId, capacity)

hasActiveLockSeat(busId, tripId, seatKey, capacity) ==
  seatKey \in listActiveLockedSeatNumbersForBusTrip(busId, tripId, capacity)

\* the owned-lock lookup without the expiry condition of its query
findOwnedLockIgnoringExpiry(busId, tripId, lockId, seatKey, capacity) ==
  {l \in {x \in seat_locks : x.bus_id = busId /\ x.locked_by = lockId} :
     normalizeSeatNumberRaw(l.seat_number, capacity) = seatKey}

\* findOwnedActiveLockForSeat: the rows among which rows.find(...) returns the first
findOwnedActiveLockForSeat(busId, tripId, lockId, seatKey, capacity) ==
  {l \in (IF tripId # NULL
          THEN {x \in seat_locks : /\ x.bus_id = busId /\ x.trip_id = tripId
                                   /\ x.locked_by = lockId /\ x.expires_at > now}
          ELSE {x \in seat_locks : /\ x.bus_id = busId
                                   /\ x.locked_by = lockId /\ x.expires_at > now}) :
     normalizeSeatNumberRaw(l.seat_number, capacity) = seatKey}

\* an INSERT without its WHERE NOT EXISTS (...) condition
NoConfirmedSeatCheck(busId, tripId, seatNumber, legacySeatNumber) == FALSE

\* The WHERE NOT EXISTS (...) of insertConfirmedBookingAtomic;
\* COALESCE(trip_id, -1) = COALESCE(?, -1) is equality with NULL equal to NULL.
ConfirmedSeatExists(busId, tripId, seatNumber, legacySeatNumber) ==
  \E b \in bookings : /\ b.bus_id = busId
                      /\ b.trip_id = tripId
                      /\ (b.seat_number = seatNumber \/ b.seat_number = legacySeatNumber)
                      /\ b.status = "confirmed"

\* insertConfirmedBookingAtomic: the bookings table after the statement
insertConfirmedBookingAtomic(passengerId, busId, tripId, seatNumber, legacySeatNumber, pricePaid, externalRef) ==
  IF ConfirmedSeatExists(busId, tripId, seatNumber,
                         IF legacySeatNumber # NoSeat THEN legacySeatNumber ELSE seatNumber)
  THEN bookings
  ELSE bookings \cup {[id |-> next_booking_id, passenger_id |-> passengerId,
                       bus_id |-> busId, trip_id |-> tripId, seat_number |-> seatNumber,
                       price_paid |-> pricePaid, status |-> "confirmed",
                       external_ref |-> externalRef]}

\* ---------------------------------------------------------------- the clock
Tick == /\ now + TickMinutes <= MaxNow
        /\ now' = now + TickMinutes
        /\ UNCHANGED <<db, sms_outbox, req>>

\* ---------------------------------------------------- POST lock-seat handler
LegacyOf(seatKey) ==
  IF canonicalSeatToLegacy(seatKey) # NoSeat THEN canonicalSeatToLegacy(seatKey) ELSE seatKey

\* the dispatcher hands body.seat, body.tripId || null, body.lockId || null over
IssueLockSeat(i, seat, tripId, lockId) ==
  /\ MayIssue(i)
  /\ req' = [req EXCEPT ![i] = [NoReq EXCEPT !.kind = "lock", !.pc = "lock_resolve",
                                            !.busId = TheBus, !.tripId = tripId,
                                            !.seats = <<seat>>, !.lockId = lockId]]
  /\ UNCHANGED <<now, db, sms_outbox>>

\* resolveTripForBus, getBusCapacity, normalizeSeatNumberRaw, lockOwner
LockResolve(i) ==
  /\ req[i].pc = "lock_resolve"
  /\ LET r == req[i]
         trip == resolveTripForBus(r.busId, r.tripId)
         capacity == getBusCapacity(r.busId)
         seatKey == normalizeSeatNumberRaw(r.seats[1], capacity)
     IN req' = [req EXCEPT ![i] =
          IF trip.err # "" THEN Returned(r, 400, trip.err)
          ELSE IF capacity = 0 THEN Returned(r, 400, "Bus not found")
          ELSE IF seatKey = NoSeat THEN Returned(r, 400, "Invalid seat number")
          ELSE [r EXCEPT !.pc = "lock_gc_expired", !.tripKey = trip.id,
                         !.seatKeys = <<seatKey>>,
                         !.lockOwner = IF r.lockId # "" THEN r.lockId
                                       ELSE GeneratedOwner(i)]]
  /\ UNCHANGED <<now, db, sms_outbox>>

\* DELETE ... WHERE bus_id = ? AND (seat_number = ? OR seat_number = ?)
\*   AND datetime(expires_at) <= datetime("now")
LockGcExpired(i) ==
  /\ req[i].pc = "lock_gc_expired"
  /\ LET r == req[i]
         seatKey == r.seatKeys[1]
     IN /\ seat_locks' = {l \in seat_locks :
                            ~(/\ l.bus_id = r.busId
                              /\ (l.seat_number = seatKey \/ l.seat_number = LegacyOf(seatKey))
                              /\ l.expires_at <= now)}
        /\ req' = [req EXCEPT ![i].pc = IF r.tripKey # NULL THEN "lock_gc_trip"
                                        ELSE "lock_read"]
  /\ UNCHANGED <<now, next_lock_id, trips_buses, booking_tables, passenger_tables,
                 booking_receipts, sms_outbox, auth_sessions, schema>>

\* if (tripKey) DELETE ... AND (trip_id IS NULL OR trip_id != ?)
LockGcTrip(i) ==
  /\ req[i].pc = "lock_gc_trip"
  /\ LET r == req[i]
         seatKey == r.seatKeys[1]
     IN /\ seat_locks' = {l \in seat_locks :
                            ~(/\ l.bus_id = r.busId
                              /\ (l.seat_number = seatKey \/ l.seat_number = LegacyOf(seatKey))
                              /\ (l.trip_id = NULL \/ l.trip_id # r.tripKey))}
        /\ req' = [req EXCEPT ![i].pc = "lock_read"]
  /\ UNCHANGED <<now, next_lock_id, trips_buses, booking_tables, passenger_tables,
                 booking_receipts, sms_outbox, auth_sessions, schema>>

\* activeLocks.find(...): the rows of the seat among the unexpired locks
MatchingLocks(busId, tripKey, seatKey, capacity) ==
  {l \in listActiveLocksForBusTrip(busId, tripKey) :
     normalizeSeatNumberRaw(l.seat_number, capacity) = seatKey}

\* listActiveLocksForBusTrip, find, the owner comparison
LockRead(i) ==
  /\ req[i].pc = "lock_read"
  /\ LET r == req[i]
         matching == MatchingLocks(r.busId, r.tripKey, r.seatKeys[1], getBusCapacity(r.busId))
     IN IF matching = {}
        THEN req' = [req EXCEPT ![i].pc = "lock_booked", ![i].matchingLock = NULL]
        ELSE \E l \in matching :
               req' = [req EXCEPT ![i] =
                 IF l.locked_by # r.lockOwner
                 THEN Returned(r, 400, "Seat already locked by another user")
                 ELSE [r EXCEPT !.pc = "lock_booked", !.matchingLock = l.id]]
  /\ UNCHANGED <<now, db, sms_outbox>>

\* hasConfirmedSeat
LockBooked(i) ==
  /\ req[i].pc = "lock_booked"
  /\ LET r == req[i] IN
     req' = [req EXCEPT ![i] =
       IF hasConfirmedSeat(r.busId, r.tripKey, r.seatKeys[1], getBusCapacity(r.busId))
       THEN Returned(r, 400, "Seat already booked")
       ELSE [r EXCEPT !.pc = "lock_expiry"]]
  /\ UNCHANGED <<now, db, sms_outbox>>

\* SELECT datetime('now', '+5 minutes')
LockExpiry(i) ==
  /\ req[i].pc = "lock_expiry"
  /\ req' = [req EXCEPT ![i].pc = "lock_write", ![i].expiresAt = now + LockTtlMinutes]
  /\ UNCHANGED <<now, db, sms_outbox>>

\* UPDATE seat_locks SET expires_at = ? WHERE id = ?   or   INSERT INTO seat_locks
LockWrite(i) ==
  /\ req[i].pc = "lock_write"
  /\ LET r == req[i] IN
     /\ IF r.matchingLock # NULL
        THEN /\ seat_locks' = {IF l.id = r.matchingLock
                               THEN [l EXCEPT !.expires_at = r.expiresAt] ELSE l :
                               l \in seat_locks}
             /\ UNCHANGED next_lock_id
        ELSE /\ seat_locks' = seat_locks \cup
                  {[id |-> next_lock_id, bus_id |-> r.busId, trip_id |-> r.tripKey,
                    seat_number |-> r.seatKeys[1], locked_by |-> r.lockOwner,
                    expires_at |-> r.expiresAt]}
             /\ next_lock_id' = next_lock_id + 1
     /\ req' = [req EXCEPT ![i] =
                  [Returned(r, 200, "") EXCEPT !.lock_id = r.lockOwner,
                                               !.out_seats = r.seatKeys]]
  /\ UNCHANGED <<now, trips_buses, booking_tables, passenger_tables,
                 booking_receipts, sms_outbox, auth_sessions, schema>>

HandleLockSeat(i) ==
  \/ LockResolve(i) \/ LockGcExpired(i) \/ LockGcTrip(i) \/ LockRead(i)
  \/ LockBooked(i) \/ LockExpiry(i) \/ LockWrite(i)

\* ------------------------------------------- POST /api/booking/confirm handler
\* What the payment processor may answer to transaction/verify: the call
\* throws (no key, HTTP error, malformed body) or reports a status and an
\* amount in minor units.
PaystackAnswers == {[ok |-> FALSE, status |-> "", amountKobo |-> 0],
                    [ok |-> TRUE, status |-> "failed", amountKobo |-> 10000],
                    [ok |-> TRUE, status |-> "success", amountKobo |-> 10000],
                    [ok |-> TRUE, status |-> "success", amountKobo |-> 4000]}
\* What the receipt service may answer: "" stands for null (not configured,
\* not OK, network error), otherwise the receipt_url.
GasAnswers == {"", "https://receipt"}

\* the requests that created bookings under a reference and have been answered
SucceededWith(paystackRef) ==
  {k \in Requests : /\ req[k].kind = "confirm" /\ req[k].pc = "done"
                     /\ req[k].status = 200 /\ ~req[k].duplicate
                     /\ req[k].paystackRef = paystackRef}

\* retryOf (history): the earlier successful request of the same reference, if any
IssueBookingConfirm(i, seats, tripId, lockId, paystackRef, price, unitPrice) ==
  /\ MayIssue(i)
  /\ req' = [req EXCEPT ![i] = [NoReq EXCEPT !.kind = "confirm", !.pc = "confirm_resolve",
                                            !.busId = TheBus, !.tripId = tripId,
                                            !.seats = seats, !.lockId = lockId,
                                            !.paystackRef = paystackRef, !.price = price,
                                            !.unitPrice = unitPrice,
                                            !.retryOf =
                                              IF SucceededWith(paystackRef) = {} THEN 0
                                              ELSE CHOOSE k \in SucceededWith(paystackRef) :
                                                     \A m \in SucceededWith(paystackRef) : k <= m]]
  /\ UNCHANGED <<now, db, sms_outbox>>

\* seatKeys: the normalized seats, first occurrences in order; << >> when one is invalid
RECURSIVE NormalizeSeatList(_, _, _)
NormalizeSeatList(rawSeatList, capacity, acc) ==
  IF rawSeatList = << >> THEN acc
  ELSE LET seatKey == normalizeSeatNumberRaw(Head(rawSeatList), capacity) IN
       IF seatKey = NoSeat THEN << >>
       ELSE NormalizeSeatList(Tail(rawSeatList), capacity,
                              IF \E k \in 1..Len(acc) : acc[k] = seatKey THEN acc
                              ELSE Append(acc, seatKey))

\* resolveTripForBus, getBusCapacity, the seat list, the reference
ConfirmResolve(i) ==
  /\ req[i].pc = "confirm_resolve"
  /\ LET r == req[i]
         trip == resolveTripForBus(r.busId, r.tripId)
         capacity == getBusCapacity(r.busId)
         seatKeys == NormalizeSeatList(r.seats, capacity, << >>)
     IN req' = [req EXCEPT ![i] =
          IF trip.err # "" THEN Returned(r, 400, trip.err)
          ELSE IF capacity = 0 THEN Returned(r, 400, "Bus not found")
          ELSE IF r.seats = << >> THEN Returned(r, 400, "Seat selection is required")
          ELSE IF seatKeys = << >> THEN Returned(r, 400, "Invalid seat number")
          ELSE IF r.paystackRef = "" THEN Returned(r, 400, "Payment reference is required")
          ELSE [r EXCEPT !.pc = "confirm_idem", !.tripKey = trip.id, !.seatKeys = seatKeys]]
  /\ UNCHANGED <<now, db, sms_outbox>>

\* external_ref = ? OR external_ref LIKE ? || ':%'
\* An external_ref is <<reference>> or <<reference, ":", seat>>.
RefMatches(external_ref, reference) ==
  \/ external_ref = <<reference>>
  \/ Len(external_ref) >= 2 /\ external_ref[1] = reference /\ external_ref[2] = ":"

BookingsOfRef(reference) == {b \in bookings : RefMatches(b.external_ref, reference)}

\* the rows of a set of table rows, ORDER BY id ASC
RECURSIVE OrderById(_)
OrderById(rows) ==
  IF rows = {} THEN << >>
  ELSE LET first == CHOOSE x \in rows : \A y \in rows : x.id <= y.id
       IN <<first>> \o OrderById(rows \ {first})

RECURSIVE SumPricePaid(_)
SumPricePaid(rows) == IF rows = << >> THEN 0
                      ELSE Head(rows).price_paid + SumPricePaid(Tail(rows))

\* the idempotency query
ConfirmIdem(i) ==
  /\ req[i].pc = "confirm_idem"
  /\ LET r == req[i]
         existingRows == OrderById(BookingsOfRef(r.paystackRef))
     IN req' = [req EXCEPT ![i] =
          IF existingRows # << >>
          THEN [r EXCEPT !.pc = "confirm_dup_receipt", !.existingRows = existingRows]
          ELSE [r EXCEPT !.pc = "confirm_verify"]]
  /\ UNCHANGED <<now, db, sms_outbox>>

\* getReceiptByBookingId: "" for no row
getReceiptByBookingId(bookingId) ==
  IF \E x \in booking_receipts : x.booking_id = bookingId
  THEN (CHOOSE x \in booking_receipts : x.booking_id = bookingId).receipt_url
  ELSE ""

\* the duplicate response, rebuilt from the stored rows
ConfirmDupReceipt(i) ==
  /\ req[i].pc = "confirm_dup_receipt"
  /\ LET r == req[i]
         rows == r.existingRows
         capacity == getBusCapacity(r.busId)
         normalizedSeats ==
           [k \in 1..Len(rows) |->
              IF normalizeSeatNumberRaw(rows[k].seat_number, capacity) # NoSeat
              THEN normalizeSeatNumberRaw(rows[k].seat_number, capacity)
              ELSE rows[k].seat_number]
     IN req' = [req EXCEPT ![i] =
          [Returned(r, 200, "") EXCEPT
             !.duplicate = TRUE,
             !.booking_ids = [k \in 1..Len(rows) |-> rows[k].id],
             !.out_seats = normalizedSeats,
             !.out_price = SumPricePaid(rows),
             !.receiptUrl = getReceiptByBookingId(rows[1].id)]]
  /\ UNCHANGED <<now, db, sms_outbox>>

\* Math.round(Number(price) * 100) for the integral prices of the model
ExpectedKobo(price) == price * 100

\* the checks on the answer without the amount comparison
VerificationErrorWithoutAmount(answer, price) ==
  IF ~answer.ok THEN "Paystack verify failed"
  ELSE IF answer.status # "success" THEN "Payment not successful"
  ELSE ""

\* verifyPaystackTransaction and the three checks on its answer
VerificationError(answer, price) ==
  IF ~answer.ok THEN "Paystack verify failed"
  ELSE IF answer.status # "success" THEN "Payment not successful"
  ELSE IF price # NoPrice /\ answer.amountKobo # ExpectedKobo(price)
       THEN "Payment amount mismatch"
  ELSE ""

ConfirmVerify(i) ==
  /\ req[i].pc = "confirm_verify"
  /\ \E answer \in PaystackAnswers :
       LET r == [req[i] EXCEPT !.effects = @ \cup {"verify"},
                               !.paystack = IF answer.ok THEN answer.status ELSE "error",
                               !.amountKobo = answer.amountKobo]
           err == VerificationError(answer, r.price)
       IN req' = [req EXCEPT ![i] =
            IF err # "" THEN Returned(r, 400, err)
            ELSE [r EXCEPT !.pc = "confirm_locks", !.idx = 1]]
  /\ UNCHANGED <<now, db, sms_outbox>>

\* an unexpired lock of this session on exactly (bus, trip, seat), NULL trip = NULL trip
OwnedLockOfSeatTrip(busId, tripKey, lockId, seatKey, capacity) ==
  \E l \in seat_locks : /\ l.bus_id = busId /\ l.trip_id = tripKey /\ l.locked_by = lockId
                        /\ l.expires_at > now
                        /\ normalizeSeatNumberRaw(l.seat_number, capacity) = seatKey

\* for (const seatKey of seatKeys) findOwnedActiveLockForSeat: one seat per step
ConfirmLocks(i) ==
  /\ req[i].pc = "confirm_locks"
  /\ LET r == req[i]
         seatKey == r.seatKeys[r.idx]
         capacity == getBusCapacity(r.busId)
         found == findOwnedActiveLockForSeat(r.busId, r.tripKey, r.lockId, seatKey, capacity)
     IN IF found = {}
        THEN req' = [req EXCEPT ![i] = Returned(r, 400, "Seat lock expired or invalid")]
        ELSE \E lock \in found :
               req' = [req EXCEPT ![i] =
                 [r EXCEPT !.ownedLocks = Append(@, lock.id),
                           !.ownedProof = @ /\ OwnedLockOfSeatTrip(r.busId, r.tripKey, r.lockId,
                                                                  seatKey, capacity),
                           !.idx = IF r.idx < Len(r.seatKeys) THEN r.idx + 1 ELSE 0,
                           !.pc = IF r.idx < Len(r.seatKeys) THEN "confirm_locks"
                                  ELSE "confirm_passenger"]]
  /\ UNCHANGED <<now, db, sms_outbox>>

\* INSERT INTO passengers
ConfirmPassenger(i) ==
  /\ req[i].pc = "confirm_passenger"
  /\ passengers' = passengers \cup {next_passenger_id}
  /\ next_passenger_id' = next_passenger_id + 1
  /\ req' = [req EXCEPT ![i].pc = "confirm_insert", ![i].idx = 1,
                        ![i].passengerId = next_passenger_id,
                        ![i].effects = @ \cup {"passenger"}]
  /\ UNCHANGED <<now, trips_buses, lock_tables, booking_tables, booking_receipts,
                 sms_outbox, auth_sessions, schema>>

\* totalPaid and perSeatPaid; prices of the model divide evenly by the seat count
TotalPaid(price) == IF price # NoPrice THEN price ELSE 0
PerSeatPaid(price, unitPrice, seatCount) ==
  IF unitPrice > 0 THEN unitPrice ELSE TotalPaid(price) \div seatCount

ExternalRefOf(paystackRef, seatKeys, seatKey) ==
  IF Len(seatKeys) = 1 THEN <<paystackRef>> ELSE <<paystackRef, ":">> \o seatKey

\* for (const seatKey of seatKeys) insertConfirmedBookingAtomic: one seat per step
ConfirmInsert(i) ==
  /\ req[i].pc = "confirm_insert"
  /\ LET r == req[i]
         seatKey == r.seatKeys[r.idx]
         after == insertConfirmedBookingAtomic(
                    r.passengerId, r.busId, r.tripKey, seatKey, LegacyOf(seatKey),
                    PerSeatPaid(r.price, r.unitPrice, Len(r.seatKeys)),
                    ExternalRefOf(r.paystackRef, r.seatKeys, seatKey))
     IN /\ bookings' = after
        /\ IF after = bookings
           THEN /\ UNCHANGED next_booking_id
                /\ req' = [req EXCEPT ![i].pc = IF r.createdBookingIds = << >>
                                                THEN "confirm_rollback_passenger"
                                                ELSE "confirm_rollback",
                                      ![i].idx = 1]
           ELSE /\ next_booking_id' = next_booking_id + 1
                /\ req' = [req EXCEPT
                     ![i].createdBookingIds = Append(@, next_booking_id),
                     ![i].effects = @ \cup {"booking"},
                     ![i].idx = IF r.idx < Len(r.seatKeys) THEN r.idx + 1 ELSE 1,
                     ![i].pc = IF r.idx < Len(r.seatKeys) THEN "confirm_insert"
                               ELSE "confirm_unlock"]
  /\ UNCHANGED <<now, trips_buses, lock_tables, passenger_tables, booking_receipts,
                 sms_outbox, auth_sessions, schema>>

\* a rollback loop that walks createdBookingIds without deleting anything
ConfirmRollbackKeepingRows(i) ==
  /\ req[i].pc = "confirm_rollback"
  /\ req' = [req EXCEPT ![i].idx = IF req[i].idx < Len(req[i].createdBookingIds)
                                   THEN req[i].idx + 1 ELSE 0,
                        ![i].pc = IF req[i].idx < Len(req[i].createdBookingIds)
                                  THEN "confirm_rollback"
                                  ELSE "confirm_rollback_passenger"]
  /\ UNCHANGED <<now, db, sms_outbox>>

\* DELETE FROM bookings WHERE id = ?   for each booking created so far
ConfirmRollback(i) ==
  /\ req[i].pc = "confirm_rollback"
  /\ LET r == req[i] IN
     /\ bookings' = {b \in bookings : b.id # r.createdBookingIds[r.idx]}
     /\ req' = [req EXCEPT ![i].idx = IF r.idx < Len(r.createdBookingIds) THEN r.idx + 1 ELSE 0,
                           ![i].pc = IF r.idx < Len(r.createdBookingIds) THEN "confirm_rollback"
                                     ELSE "confirm_rollback_passenger"]
  /\ UNCHANGED <<now, trips_buses, lock_tables, next_booking_id, passenger_tables,
                 booking_receipts, sms_outbox, auth_sessions, schema>>

\* DELETE FROM passengers WHERE id = ?; throw 'Seat already booked'
ConfirmRollbackPassenger(i) ==
  /\ req[i].pc = "confirm_rollback_passenger"
  /\ passengers' = passengers \ {req[i].passengerId}
  /\ req' = [req EXCEPT ![i] = Returned(req[i], 400, "Seat already booked")]
  /\ UNCHANGED <<now, trips_buses, lock_tables, booking_tables, next_passenger_id,
                 booking_receipts, sms_outbox, auth_sessions, schema>>

\* for (const lock of ownedLocks) DELETE FROM seat_locks WHERE id = ?
ConfirmUnlock(i) ==
  /\ req[i].pc = "confirm_unlock"
  /\ LET r == req[i] IN
     /\ seat_locks' = {l \in seat_locks : l.id # r.ownedLocks[r.idx]}
     /\ req' = [req EXCEPT
          ![i].effects = @ \cup {"unlock"},
          ![i].idx = IF r.idx < Len(r.ownedLocks) THEN r.idx + 1 ELSE 0,
          ![i].pc = IF r.idx < Len(r.ownedLocks) THEN "confirm_unlock"
                    ELSE IF r.tripKey # NULL THEN "confirm_count" ELSE "confirm_gas"]
  /\ UNCHANGED <<now, trips_buses, next_lock_id, booking_tables, passenger_tables,
                 booking_receipts, sms_outbox, auth_sessions, schema>>

ConfirmedCount(busId, tripKey) ==
  Cardinality({b \in bookings : b.bus_id = busId /\ b.trip_id = tripKey
                                /\ b.status = "confirmed"})
Max0(n) == IF n > 0 THEN n ELSE 0

\* if (tripKey): SELECT capacity, SELECT COUNT(*) of the trip's confirmed bookings
ConfirmCount(i) ==
  /\ req[i].pc = "confirm_count"
  /\ req' = [req EXCEPT ![i].pc = "confirm_avail",
                        ![i].count = Max0(buses[req[i].busId].capacity
                                          - ConfirmedCount(req[i].busId, req[i].tripKey))]
  /\ UNCHANGED <<now, db, sms_outbox>>

\* UPDATE buses SET available_seats = ?
ConfirmAvail(i) ==
  /\ req[i].pc = "confirm_avail"
  /\ buses' = [buses EXCEPT ![req[i].busId].available_seats = req[i].count]
  /\ req' = [req EXCEPT ![i].pc = "confirm_gas", ![i].count = 0]
  /\ UNCHANGED <<now, trip_schedules, lock_tables, booking_tables, passenger_tables,
                 booking_receipts, sms_outbox, auth_sessions, schema>>

\* sendBookingToGAS
ConfirmGas(i) ==
  /\ req[i].pc = "confirm_gas"
  /\ \E receiptUrl \in GasAnswers :
       req' = [req EXCEPT ![i].receiptUrl = receiptUrl,
                          ![i].effects = @ \cup {"gas"},
                          ![i].idx = 1,
                          ![i].pc = IF receiptUrl # "" THEN "confirm_receipts"
                                    ELSE "confirm_sms"]
  /\ UNCHANGED <<now, db, sms_outbox>>

\* saveReceiptForBooking: INSERT ... ON CONFLICT(booking_id) DO UPDATE
saveReceiptForBooking(bookingId, receiptUrl) ==
  {x \in booking_receipts : x.booking_id # bookingId}
    \cup {[booking_id |-> bookingId, receipt_url |-> receiptUrl]}

\* for (const id of createdBookingIds) saveReceiptForBooking
ConfirmReceipts(i) ==
  /\ req[i].pc = "confirm_receipts"
  /\ LET r == req[i] IN
     /\ booking_receipts' = saveReceiptForBooking(r.createdBookingIds[r.idx], r.receiptUrl)
     /\ req' = [req EXCEPT
          ![i].idx = IF r.idx < Len(r.createdBookingIds) THEN r.idx + 1 ELSE 0,
          ![i].pc = IF r.idx < Len(r.createdBookingIds) THEN "confirm_receipts"
                    ELSE "confirm_sms"]
  /\ UNCHANGED <<now, trips_buses, lock_tables, booking_tables, passenger_tables,
                 sms_outbox, auth_sessions, schema>>

\* What sendSMS returns: the gateway took the message, or the call threw or
\* was answered with an error (no API key, HTTP error); callers drop the value.
SmsAnswers == {TRUE, FALSE}

\* a finalizer that answers an error when the SMS gateway fails
ConfirmSmsOrFail(i) ==
  /\ req[i].pc = "confirm_sms"
  /\ \E ok \in SmsAnswers : LET r == req[i] IN
     /\ sms_outbox' = Append(sms_outbox, [booking_id |-> r.createdBookingIds[1],
                                          source |-> "confirm"])
     /\ req' = [req EXCEPT ![i] =
          IF ~ok THEN [Returned(r, 400, "SMS failed") EXCEPT !.effects = @ \cup {"sms"},
                                                             !.smsOk = ok]
          ELSE [Returned(r, 200, "") EXCEPT
                  !.effects = @ \cup {"sms"}, !.smsOk = ok,
                  !.booking_ids = r.createdBookingIds,
                  !.out_seats = r.seatKeys,
                  !.out_price = TotalPaid(r.price),
                  !.receiptUrl = r.receiptUrl]]
  /\ UNCHANGED <<now, db>>

\* sendSMS, then the confirmation response
ConfirmSms(i) ==
  /\ req[i].pc = "confirm_sms"
  /\ \E ok \in SmsAnswers : LET r == req[i] IN
     /\ sms_outbox' = Append(sms_outbox, [booking_id |-> r.createdBookingIds[1],
                                          source |-> "confirm"])
     /\ req' = [req EXCEPT ![i] =
          [Returned(r, 200, "") EXCEPT
             !.effects = @ \cup {"sms"}, !.smsOk = ok,
             !.booking_ids = r.createdBookingIds,
             !.out_seats = r.seatKeys,
             !.out_price = TotalPaid(r.price),
             !.receiptUrl = r.receiptUrl]]
  /\ UNCHANGED <<now, db>>

HandleBookingConfirm(i) ==
  \/ ConfirmResolve(i) \/ ConfirmIdem(i) \/ ConfirmDupReceipt(i) \/ ConfirmVerify(i)
  \/ ConfirmLocks(i) \/ ConfirmPassenger(i) \/ ConfirmInsert(i) \/ ConfirmRollback(i)
  \/ ConfirmRollbackPassenger(i) \/ ConfirmUnlock(i) \/ ConfirmCount(i) \/ ConfirmAvail(i)
  \/ ConfirmGas(i) \/ ConfirmReceipts(i) \/ ConfirmSms(i)

\* ------------------------------------------------------ sessions and admins
SessionTtlMinutes == 10080     \* 7 * 24 * 60 minutes
AdminEmails == {"admin@elite"} \* parseAdminEmails(env): the ADMIN_EMAILS allow-list

\* getSessionUser: [err |-> "" or the message thrown, email |-> users.email]
\* a session lookup that does not look at expires_at
getSessionUserIgnoringExpiry(token) ==
  IF token = "" THEN [err |-> "Token required", email |-> ""]
  ELSE IF ~\E x \in auth_sessions : x.token = token
       THEN [err |-> "Invalid token", email |-> ""]
  ELSE [err |-> "", email |-> (CHOOSE x \in auth_sessions : x.token = token).email]

getSessionUser(token) ==
  IF token = "" THEN [err |-> "Token required", email |-> ""]
  ELSE IF ~\E x \in auth_sessions : x.token = token
       THEN [err |-> "Invalid token", email |-> ""]
  ELSE LET session == CHOOSE x \in auth_sessions : x.token = token IN
       IF session.expires_at < now THEN [err |-> "Token expired", email |-> ""]
       ELSE [err |-> "", email |-> session.email]

isAdminEmail(email) == email # "" /\ email \in AdminEmails

\* --------------------------------- POST /api/admin/bookings/manual handler
IssueAdminManualBooking(i, token, seat, tripId, pricePaid) ==
  /\ MayIssue(i)
  /\ req' = [req EXCEPT ![i] = [NoReq EXCEPT !.kind = "manual", !.pc = "manual_auth",
                                            !.busId = TheBus, !.tripId = tripId,
                                            !.seats = <<seat>>, !.token = token,
                                            !.price = pricePaid]]
  /\ UNCHANGED <<now, db, sms_outbox>>

\* getSessionUser and isAdminEmail: a thrown error is answered 400, a
\* session that is not an admin's 403
ManualAuth(i) ==
  /\ req[i].pc = "manual_auth"
  /\ LET r == req[i]
         user == getSessionUser(r.token)
     IN req' = [req EXCEPT ![i] =
          IF user.err # "" THEN Returned(r, 400, user.err)
          ELSE IF ~isAdminEmail(user.email) THEN Returned(r, 403, "Forbidden")
          ELSE [r EXCEPT !.pc = "manual_resolve"]]
  /\ UNCHANGED <<now, db, sms_outbox>>

\* required fields, SELECT the bus, resolveTripForBus, normalizeSeatNumberRaw
ManualResolve(i) ==
  /\ req[i].pc = "manual_resolve"
  /\ LET r == req[i]
         trip == resolveTripForBus(r.busId, r.tripId)
         seatKey == IF r.busId \in DOMAIN buses
                    THEN normalizeSeatNumberRaw(r.seats[1],
                                                EffectiveCapacity(buses[r.busId].capacity))
                    ELSE NoSeat
     IN req' = [req EXCEPT ![i] =
          IF r.seats[1] = << >> THEN Returned(r, 400, "Missing required fields")
          ELSE IF r.busId \notin DOMAIN buses THEN Returned(r, 400, "Bus not found")
          ELSE IF trip.err # "" THEN Returned(r, 400, trip.err)
          ELSE IF seatKey = NoSeat THEN Returned(r, 400, "Invalid seat number")
          ELSE [r EXCEPT !.pc = "manual_booked", !.tripKey = trip.id,
                         !.seatKeys = <<seatKey>>]]
  /\ UNCHANGED <<now, db, sms_outbox>>

\* hasConfirmedSeat
ManualBooked(i) ==
  /\ req[i].pc = "manual_booked"
  /\ LET r == req[i] IN
     req' = [req EXCEPT ![i] =
       IF hasConfirmedSeat(r.busId, r.tripKey, r.seatKeys[1],
                           EffectiveCapacity(buses[r.busId].capacity))
       THEN Returned(r, 400, "Seat already booked")
       ELSE [r EXCEPT !.pc = "manual_locked"]]
  /\ UNCHANGED <<now, db, sms_outbox>>

\* hasActiveLockSeat
ManualLocked(i) ==
  /\ req[i].pc = "manual_locked"
  /\ LET r == req[i] IN
     req' = [req EXCEPT ![i] =
       IF hasActiveLockSeat(r.busId, r.tripKey, r.seatKeys[1],
                            EffectiveCapacity(buses[r.busId].capacity))
       THEN Returned(r, 400, "Seat currently locked")
       ELSE [r EXCEPT !.pc = "manual_passenger"]]
  /\ UNCHANGED <<now, db, sms_outbox>>

\* INSERT INTO passengers
ManualPassenger(i) ==
  /\ req[i].pc = "manual_passenger"
  /\ passengers' = passengers \cup {next_passenger_id}
  /\ next_passenger_id' = next_passenger_id + 1
  /\ req' = [req EXCEPT ![i].pc = "manual_insert",
                        ![i].passengerId = next_passenger_id,
                        ![i].effects = @ \cup {"passenger"}]
  /\ UNCHANGED <<now, trips_buses, lock_tables, booking_tables, booking_receipts,
                 sms_outbox, auth_sessions, schema>>

\* `admin_manual_${Date.now()}_${random}`: one fresh reference per request
ManualRef(i) == <<"admin_manual", "_">> \o NumberToString(i)
\* paid: the request's pricePaid when finite, else the bus price
ManualPaid(price, busId) == IF price # NoPrice THEN price ELSE buses[busId].price

\* insertConfirmedBookingAtomic
ManualInsert(i) ==
  /\ req[i].pc = "manual_insert"
  /\ LET r == req[i]
         after == insertConfirmedBookingAtomic(
                    r.passengerId, r.busId, r.tripKey, r.seatKeys[1],
                    LegacyOf(r.seatKeys[1]), ManualPaid(r.price, r.busId), ManualRef(i))
     IN /\ bookings' = after
        /\ IF after = bookings
           THEN /\ UNCHANGED next_booking_id
                /\ req' = [req EXCEPT ![i].pc = "manual_rollback_passenger"]
           ELSE /\ next_booking_id' = next_booking_id + 1
                /\ req' = [req EXCEPT ![i].createdBookingIds = <<next_booking_id>>,
                                      ![i].effects = @ \cup {"booking"},
                                      ![i].pc = "manual_gas"]
  /\ UNCHANGED <<now, trips_buses, lock_tables, passenger_tables, booking_receipts,
                 sms_outbox, auth_sessions, schema>>

\* DELETE FROM passengers WHERE id = ?; throw 'Seat already booked'
ManualRollbackPassenger(i) ==
  /\ req[i].pc = "manual_rollback_passenger"
  /\ passengers' = passengers \ {req[i].passengerId}
  /\ req' = [req EXCEPT ![i] = Returned(req[i], 400, "Seat already booked")]
  /\ UNCHANGED <<now, trips_buses, lock_tables, booking_tables, next_passenger_id,
                 booking_receipts, sms_outbox, auth_sessions, schema>>

\* sendBookingToGAS
ManualGas(i) ==
  /\ req[i].pc = "manual_gas"
  /\ \E receiptUrl \in GasAnswers :
       req' = [req EXCEPT ![i].receiptUrl = receiptUrl,
                          ![i].effects = @ \cup {"gas"},
                          ![i].pc = IF receiptUrl # "" THEN "manual_receipt" ELSE "manual_sms"]
  /\ UNCHANGED <<now, db, sms_outbox>>

\* saveReceiptForBooking
ManualReceipt(i) ==
  /\ req[i].pc = "manual_receipt"
  /\ booking_receipts' = saveReceiptForBooking(req[i].createdBookingIds[1], req[i].receiptUrl)
  /\ req' = [req EXCEPT ![i].pc = "manual_sms"]
  /\ UNCHANGED <<now, trips_buses, lock_tables, booking_tables, passenger_tables,
                 sms_outbox, auth_sessions, schema>>

\* sendSMS; without a trip the response follows at once
ManualSms(i) ==
  /\ req[i].pc = "manual_sms"
  /\ \E ok \in SmsAnswers : LET r == req[i] IN
     /\ sms_outbox' = Append(sms_outbox, [booking_id |-> r.createdBookingIds[1],
                                          source |-> "manual"])
     /\ req' = [req EXCEPT ![i] =
          IF r.tripKey # NULL
          THEN [r EXCEPT !.pc = "manual_count", !.effects = @ \cup {"sms"}, !.smsOk = ok]
          ELSE [Returned(r, 200, "") EXCEPT !.effects = @ \cup {"sms"}, !.smsOk = ok,
                                            !.booking_ids = r.createdBookingIds,
                                            !.out_seats = r.seatKeys,
                                            !.out_price = ManualPaid(r.price, r.busId),
                                            !.receiptUrl = r.receiptUrl]]
  /\ UNCHANGED <<now, db>>

\* if (tripKey) SELECT COUNT(*) of the trip's confirmed bookings
ManualCount(i) ==
  /\ req[i].pc = "manual_count"
  /\ req' = [req EXCEPT ![i].pc = "manual_avail",
                        ![i].count = Max0(buses[req[i].busId].capacity
                                          - ConfirmedCount(req[i].busId, req[i].tripKey))]
  /\ UNCHANGED <<now, db, sms_outbox>>

\* UPDATE buses SET available_seats = ?, then the response
ManualAvail(i) ==
  /\ req[i].pc = "manual_avail"
  /\ LET r == req[i] IN
     /\ buses' = [buses EXCEPT ![r.busId].available_seats = r.count]
     /\ req' = [req EXCEPT ![i] =
          [Returned(r, 200, "") EXCEPT !.booking_ids = r.createdBookingIds,
                                       !.out_seats = r.seatKeys,
                                       !.out_price = ManualPaid(r.price, r.busId),
                                       !.receiptUrl = r.receiptUrl]]
  /\ UNCHANGED <<now, trip_schedules, lock_tables, booking_tables, passenger_tables,
                 booking_receipts, sms_outbox, auth_sessions, schema>>

HandleAdminManualBooking(i) ==
  \/ ManualAuth(i) \/ ManualResolve(i) \/ ManualBooked(i) \/ ManualLocked(i)
  \/ ManualPassenger(i) \/ ManualInsert(i) \/ ManualRollbackPassenger(i)
  \/ ManualGas(i) \/ ManualReceipt(i) \/ ManualSms(i) \/ ManualCount(i) \/ ManualAvail(i)

\* ------------------------------------- POST /api/admin/trips/:id/end handler
IssueAdminEndTrip(i, token, tripId) ==
  /\ MayIssue(i)
  /\ req' = [req EXCEPT ![i] = [NoReq EXCEPT !.kind = "endtrip", !.pc = "end_auth",
                                            !.tripId = tripId, !.token = token]]
  /\ UNCHANGED <<now, db, sms_outbox>>

\* requireAdminUser: 'Forbidden' is answered 403, any other thrown error 400
EndAuth(i) ==
  /\ req[i].pc = "end_auth"
  /\ LET r == req[i]
         user == getSessionUser(r.token)
     IN req' = [req EXCEPT ![i] =
          IF user.err # "" THEN Returned(r, 400, user.err)
          ELSE IF ~isAdminEmail(user.email) THEN Returned(r, 403, "Forbidden")
          ELSE IF r.tripId = NULL THEN Returned(r, 400, "Trip ID required")
          ELSE [r EXCEPT !.pc = "end_select"]]
  /\ UNCHANGED <<now, db, sms_outbox>>

\* a create-trip that puts the bus's ended trip back to 'active' instead of
\* inserting a row
CreateInsertReactivating(i) ==
  /\ req[i].pc = "create_insert"
  /\ LET ended == {t \in TripIds : /\ trip_schedules[t].bus_id = req[i].busId
                                   /\ trip_schedules[t].status # "active"}
         last == CHOOSE t \in ended : \A u \in ended : u <= t
     IN IF ended = {}
        THEN /\ trip_schedules' = Append(trip_schedules,
                                         [bus_id |-> req[i].busId, status |-> "active"])
             /\ req' = [req EXCEPT ![i].pc = "create_bus",
                                   ![i].tripKey = Len(trip_schedules) + 1,
                                   ![i].effects = @ \cup {"trip"}]
        ELSE /\ trip_schedules' = [trip_schedules EXCEPT ![last].status = "active"]
             /\ req' = [req EXCEPT ![i].pc = "create_bus", ![i].tripKey = last,
                                   ![i].effects = @ \cup {"trip"}]
  /\ UNCHANGED <<now, buses, lock_tables, booking_tables, passenger_tables,
                 booking_receipts, sms_outbox, auth_sessions, schema>>

\* an end-trip that does not look at the status of the trip it read
EndSelectAnyStatus(i) ==
  /\ req[i].pc = "end_select"
  /\ LET r == req[i] IN
     req' = [req EXCEPT ![i] =
       IF r.tripId \notin TripIds THEN Returned(r, 400, "Trip not found")
       ELSE [r EXCEPT !.pc = "end_status", !.busId = trip_schedules[r.tripId].bus_id,
                      !.count = buses[trip_schedules[r.tripId].bus_id].capacity]]
  /\ UNCHANGED <<now, db, sms_outbox>>

\* SELECT the trip, the two checks, SELECT the bus
EndSelect(i) ==
  /\ req[i].pc = "end_select"
  /\ LET r == req[i] IN
     req' = [req EXCEPT ![i] =
       IF r.tripId \notin TripIds THEN Returned(r, 400, "Trip not found")
       ELSE IF trip_schedules[r.tripId].status # "active"
            THEN Returned(r, 400, "Trip is not active")
       ELSE [r EXCEPT !.pc = "end_status", !.busId = trip_schedules[r.tripId].bus_id,
                      !.count = buses[trip_schedules[r.tripId].bus_id].capacity]]
  /\ UNCHANGED <<now, db, sms_outbox>>

\* UPDATE trip_schedules SET status = 'completed' WHERE id = ?
EndStatus(i) ==
  /\ req[i].pc = "end_status"
  /\ trip_schedules' = [trip_schedules EXCEPT ![req[i].tripId].status = "completed"]
  /\ req' = [req EXCEPT ![i].pc = "end_avail"]
  /\ UNCHANGED <<now, buses, lock_tables, booking_tables, passenger_tables,
                 booking_receipts, sms_outbox, auth_sessions, schema>>

\* UPDATE buses SET available_seats = capacity
EndAvail(i) ==
  /\ req[i].pc = "end_avail"
  /\ buses' = [buses EXCEPT ![req[i].busId].available_seats = req[i].count]
  /\ req' = [req EXCEPT ![i].pc = "end_locks"]
  /\ UNCHANGED <<now, trip_schedules, lock_tables, booking_tables, passenger_tables,
                 booking_receipts, sms_outbox, auth_sessions, schema>>

\* DELETE FROM seat_locks WHERE trip_id = ?, then the response
EndLocks(i) ==
  /\ req[i].pc = "end_locks"
  /\ seat_locks' = {l \in seat_locks : l.trip_id # req[i].tripId}
  /\ req' = [req EXCEPT ![i] = Returned(req[i], 200, "")]
  /\ UNCHANGED <<now, trips_buses, next_lock_id, booking_tables, passenger_tables,
                 booking_receipts, sms_outbox, auth_sessions, schema>>

HandleAdminEndTrip(i) ==
  \/ EndAuth(i) \/ EndSelect(i) \/ EndStatus(i) \/ EndAvail(i) \/ EndLocks(i)

\* --------------------------------------- POST /api/admin/trips handler
IssueAdminCreateTrip(i, token) ==
  /\ MayIssue(i)
  /\ req' = [req EXCEPT ![i] = [NoReq EXCEPT !.kind = "createtrip", !.pc = "create_auth",
                                            !.busId = TheBus, !.token = token]]
  /\ UNCHANGED <<now, db, sms_outbox>>

\* requireAdminUser, the required fields, SELECT the route, SELECT the bus
CreateAuth(i) ==
  /\ req[i].pc = "create_auth"
  /\ LET r == req[i]
         user == getSessionUser(r.token)
     IN req' = [req EXCEPT ![i] =
          IF user.err # "" THEN Returned(r, 400, user.err)
          ELSE IF ~isAdminEmail(user.email) THEN Returned(r, 403, "Forbidden")
          ELSE IF r.busId \notin DOMAIN buses THEN Returned(r, 400, "Bus not found")
          ELSE [r EXCEPT !.pc = "create_check", !.count = buses[r.busId].capacity]]
  /\ UNCHANGED <<now, db, sms_outbox>>

\* SELECT id FROM trip_schedules WHERE bus_id = ? AND status = "active" LIMIT 1
CreateCheck(i) ==
  /\ req[i].pc = "create_check"
  /\ LET r == req[i] IN
     req' = [req EXCEPT ![i] =
       IF \E t \in TripIds : /\ trip_schedules[t].bus_id = r.busId
                             /\ trip_schedules[t].status = "active"
       THEN Returned(r, 400, "Bus already assigned to an active trip")
       ELSE [r EXCEPT !.pc = "create_insert"]]
  /\ UNCHANGED <<now, db, sms_outbox>>

\* INSERT INTO trip_schedules (..., status) VALUES (..., 'active')
CreateInsert(i) ==
  /\ req[i].pc = "create_insert"
  /\ trip_schedules' = Append(trip_schedules, [bus_id |-> req[i].busId, status |-> "active"])
  /\ req' = [req EXCEPT ![i].pc = "create_bus", ![i].tripKey = Len(trip_schedules) + 1,
                        ![i].effects = @ \cup {"trip"}]
  /\ UNCHANGED <<now, buses, lock_tables, booking_tables, passenger_tables,
                 booking_receipts, sms_outbox, auth_sessions, schema>>

\* UPDATE buses SET route_id = ?, available_seats = ?, price = ?, then the response
CreateBus(i) ==
  /\ req[i].pc = "create_bus"
  /\ buses' = [buses EXCEPT ![req[i].busId].available_seats = req[i].count]
  /\ req' = [req EXCEPT ![i] = Returned(req[i], 200, "")]
  /\ UNCHANGED <<now, trip_schedules, lock_tables, booking_tables, passenger_tables,
                 booking_receipts, sms_outbox, auth_sessions, schema>>

HandleAdminCreateTrip(i) ==
  \/ CreateAuth(i) \/ CreateCheck(i) \/ CreateInsert(i) \/ CreateBus(i)

\* -------------------------------------------------- POST unlock-seat handler
IssueUnlockSeat(i, seat, tripId, lockId) ==
  /\ MayIssue(i)
  /\ req' = [req EXCEPT ![i] = [NoReq EXCEPT !.kind = "unlock", !.pc = "unlock_resolve",
                                            !.busId = TheBus, !.tripId = tripId,
                                            !.seats = <<seat>>, !.lockId = lockId]]
  /\ UNCHANGED <<now, db, sms_outbox>>

\* the lock id, getBusCapacity, normalizeSeatNumberRaw, resolveTripForBus
UnlockResolve(i) ==
  /\ req[i].pc = "unlock_resolve"
  /\ LET r == req[i]
         capacity == getBusCapacity(r.busId)
         seatKey == normalizeSeatNumberRaw(r.seats[1], capacity)
         trip == resolveTripForBus(r.busId, r.tripId)
     IN req' = [req EXCEPT ![i] =
          IF r.lockId = "" THEN Returned(r, 400, "Lock ID required")
          ELSE IF capacity = 0 THEN Returned(r, 400, "Bus not found")
          ELSE IF seatKey = NoSeat THEN Returned(r, 400, "Invalid seat number")
          ELSE IF trip.err # "" THEN Returned(r, 400, trip.err)
          ELSE [r EXCEPT !.pc = "unlock_delete", !.tripKey = trip.id,
                         !.seatKeys = <<seatKey>>]]
  /\ UNCHANGED <<now, db, sms_outbox>>

\* a DELETE without its seat_number condition: every lock of the session goes
UnlockDeleteWholeSession(i) ==
  /\ req[i].pc = "unlock_delete"
  /\ seat_locks' = {l \in seat_locks :
                      ~(l.bus_id = req[i].busId /\ l.locked_by = req[i].lockId)}
  /\ req' = [req EXCEPT ![i] = [Returned(req[i], 200, "") EXCEPT
                                  !.out_seats = req[i].seatKeys]]
  /\ UNCHANGED <<now, trips_buses, next_lock_id, booking_tables, passenger_tables,
                 booking_receipts, sms_outbox, auth_sessions, schema>>

\* DELETE FROM seat_locks WHERE bus_id = ? [AND trip_id = ?] AND locked_by = ?
\*   AND (seat_number = ? OR seat_number = ?), then the response
UnlockDelete(i) ==
  /\ req[i].pc = "unlock_delete"
  /\ LET r == req[i]
         seatKey == r.seatKeys[1]
     IN /\ seat_locks' = {l \in seat_locks :
                            ~(/\ l.bus_id = r.busId
                              /\ (r.tripKey # NULL => l.trip_id = r.tripKey)
                              /\ l.locked_by = r.lockId
                              /\ (l.seat_number = seatKey \/ l.seat_number = LegacyOf(seatKey)))}
        /\ req' = [req EXCEPT ![i] = [Returned(r, 200, "") EXCEPT !.out_seats = r.seatKeys]]
  /\ UNCHANGED <<now, trips_buses, next_lock_id, booking_tables, passenger_tables,
                 booking_receipts, sms_outbox, auth_sessions, schema>>

HandleUnlockSeat(i) == UnlockResolve(i) \/ UnlockDelete(i)

\* ------------------------------------- POST /api/paystack/webhook handler
\* The raw bodies the processor or anybody else may post, by name, with what
\* JSON.parse makes of each: B1 and B2 are events about reference R1, B3 is
\* not JSON.
WebhookBodies == {"B1", "B2", "B3"}
ParseJson(rawBody) ==
  CASE rawBody = "B1" -> [ok |-> TRUE, event |-> "charge.success", reference |-> "R1"]
    [] rawBody = "B2" -> [ok |-> TRUE, event |-> "charge.failed", reference |-> "R1"]
    [] OTHER -> [ok |-> FALSE, event |-> "", reference |-> ""]

\* hmacSha512Hex under PAYSTACK_SECRET_KEY: a hex string per raw body, cut to
\* HexLen digits; different bodies have different digests
HexLen == 2
hmacSha512Hex(rawBody) ==
  [k \in 1..HexLen |->
     IF k < HexLen THEN "a"
     ELSE CASE rawBody = "B1" -> "1" [] rawBody = "B2" -> "2" [] OTHER -> "3"]

\* the x-paystack-signature headers tried: a digest, none, a cut and a padded one
WebhookSignatures ==
  {hmacSha512Hex(b) : b \in WebhookBodies}
    \cup {<< >>, SubSeq(hmacSha512Hex("B1"), 1, HexLen - 1), hmacSha512Hex("B1") \o <<"0">>}

\* a comparison that stops at the lengths
SameLength(a, b) == a # << >> /\ b # << >> /\ Len(a) = Len(b)

\* out |= a.charCodeAt(i) ^ b.charCodeAt(i) over the whole length; out === 0
timingSafeEqual(a, b) ==
  IF a = << >> \/ b = << >> \/ Len(a) # Len(b) THEN FALSE
  ELSE {k \in 1..Len(a) : a[k] # b[k]} = {}

\* the webhooks of a raw body that were processed and answered
ProcessedWith(rawBody) ==
  {k \in Requests : /\ req[k].kind = "webhook" /\ req[k].pc = "done"
                     /\ req[k].status = 200 /\ "status" \in req[k].effects
                     /\ req[k].rawBody = rawBody}

\* retryOf (history): an earlier processed webhook of the same body, if any
IssueWebhook(i, rawBody, signature) ==
  /\ MayIssue(i)
  /\ req' = [req EXCEPT ![i] = [NoReq EXCEPT !.kind = "webhook", !.pc = "hook_auth",
                                            !.rawBody = rawBody, !.signature = signature,
                                            !.retryOf =
                                              IF ProcessedWith(rawBody) = {} THEN 0
                                              ELSE CHOOSE k \in ProcessedWith(rawBody) : TRUE]]
  /\ UNCHANGED <<now, db, sms_outbox>>

\* the signature check, JSON.parse, the event and its reference
HookAuth(i) ==
  /\ req[i].pc = "hook_auth"
  /\ LET r == req[i]
         event == ParseJson(r.rawBody)
     IN req' = [req EXCEPT ![i] =
          IF ~timingSafeEqual(r.signature, hmacSha512Hex(r.rawBody))
          THEN Returned(r, 401, "Invalid webhook signature")
          ELSE IF ~event.ok THEN Returned(r, 400, "SyntaxError")
          ELSE IF event.event = "charge.success" /\ event.reference # ""
               THEN [r EXCEPT !.pc = "hook_update", !.paystackRef = event.reference]
          ELSE Returned(r, 200, "")]
  /\ UNCHANGED <<now, db, sms_outbox>>

\* UPDATE bookings SET status = 'confirmed' WHERE external_ref = ? OR external_ref LIKE ?
HookUpdate(i) ==
  /\ req[i].pc = "hook_update"
  /\ bookings' = {IF RefMatches(b.external_ref, req[i].paystackRef)
                  THEN [b EXCEPT !.status = "confirmed"] ELSE b : b \in bookings}
  /\ req' = [req EXCEPT ![i].pc = "hook_select", ![i].effects = @ \cup {"status"}]
  /\ UNCHANGED <<now, trips_buses, lock_tables, next_booking_id, passenger_tables,
                 booking_receipts, sms_outbox, auth_sessions, schema>>

\* handleWebhookBookingFallback: the newest booking of the reference that has
\* its passenger row
HookSelect(i) ==
  /\ req[i].pc = "hook_select"
  /\ LET r == req[i]
         rows == {b \in BookingsOfRef(r.paystackRef) : b.passenger_id \in passengers}
         booking == CHOOSE b \in rows : \A x \in rows : x.id <= b.id
     IN req' = [req EXCEPT ![i] =
          IF rows = {} THEN Returned(r, 200, "")
          ELSE [r EXCEPT !.pc = "hook_receipt", !.createdBookingIds = <<booking.id>>]]
  /\ UNCHANGED <<now, db, sms_outbox>>

\* a fallback that does not look for a stored receipt
HookReceiptUnread(i) ==
  /\ req[i].pc = "hook_receipt"
  /\ req' = [req EXCEPT ![i].pc = "hook_gas", ![i].existingReceipt = FALSE]
  /\ UNCHANGED <<now, db, sms_outbox>>

\* existingReceipt = getReceiptByBookingId; with a stored URL neither the
\* receipt service nor the SMS gateway is called
HookReceipt(i) ==
  /\ req[i].pc = "hook_receipt"
  /\ LET r == req[i]
         existing == \E x \in booking_receipts : x.booking_id = r.createdBookingIds[1]
         receiptUrl == getReceiptByBookingId(r.createdBookingIds[1])
     IN req' = [req EXCEPT ![i] =
          IF receiptUrl = ""
          THEN [r EXCEPT !.pc = "hook_gas", !.existingReceipt = existing]
          ELSE IF ~existing THEN [r EXCEPT !.pc = "hook_sms", !.receiptUrl = receiptUrl]
          ELSE Returned(r, 200, "")]
  /\ UNCHANGED <<now, db, sms_outbox>>

\* sendBookingToGAS
HookGas(i) ==
  /\ req[i].pc = "hook_gas"
  /\ \E receiptUrl \in GasAnswers :
       req' = [req EXCEPT ![i] =
         IF receiptUrl # ""
         THEN [req[i] EXCEPT !.pc = "hook_save", !.receiptUrl = receiptUrl,
                             !.effects = @ \cup {"gas"}]
         ELSE IF ~req[i].existingReceipt
              THEN [req[i] EXCEPT !.pc = "hook_sms", !.effects = @ \cup {"gas"}]
         ELSE [Returned(req[i], 200, "") EXCEPT !.effects = @ \cup {"gas"}]]
  /\ UNCHANGED <<now, db, sms_outbox>>

\* saveReceiptForBooking
HookSave(i) ==
  /\ req[i].pc = "hook_save"
  /\ booking_receipts' = saveReceiptForBooking(req[i].createdBookingIds[1], req[i].receiptUrl)
  /\ req' = [req EXCEPT ![i] =
       IF ~req[i].existingReceipt THEN [req[i] EXCEPT !.pc = "hook_sms"]
       ELSE Returned(req[i], 200, "")]
  /\ UNCHANGED <<now, trips_buses, lock_tables, booking_tables, passenger_tables,
                 sms_outbox, auth_sessions, schema>>

\* if (!existingReceipt) sendSMS, then the response
HookSms(i) ==
  /\ req[i].pc = "hook_sms"
  /\ sms_outbox' = Append(sms_outbox, [booking_id |-> req[i].createdBookingIds[1],
                                       source |-> "webhook"])
  /\ \E ok \in SmsAnswers : req' = [req EXCEPT ![i] =
       [Returned(req[i], 200, "") EXCEPT !.effects = @ \cup {"sms"}, !.smsOk = ok,
                                         !.booking_ids = req[i].createdBookingIds]]
  /\ UNCHANGED <<now, db>>

HandlePaystackWebhook(i) ==
  \/ HookAuth(i) \/ HookUpdate(i) \/ HookSelect(i) \/ HookReceipt(i)
  \/ HookGas(i) \/ HookSave(i) \/ HookSms(i)

\* ------------------------------------------------------------ initial states
\* A deployed database: one bus, either never scheduled (trip-null mode) or
\* with one active trip; an administrator and a customer are signed in.
InitTrips == {<< >>, <<[bus_id |-> TheBus, status |-> "active"]>>}

InitSessions == {[token |-> "tok_admin", email |-> "admin@elite",
                  expires_at |-> SessionTtlMinutes],
                 [token |-> "tok_user", email |-> "user@elite",
                  expires_at |-> SessionTtlMinutes]}

\* no lock, booking or passenger yet; n request slots
InitEmpty(n) ==
  /\ now = 0
  /\ trip_schedules \in InitTrips
  /\ buses = [b \in {TheBus} |-> [capacity |-> BusCapacity, available_seats |-> BusCapacity,
                                  price |-> 100]]
  /\ seat_locks = {}
  /\ next_lock_id = 1
  /\ bookings = {}
  /\ next_booking_id = 1
  /\ passengers = {}
  /\ next_passenger_id = 1
  /\ booking_receipts = {}
  /\ sms_outbox = << >>
  /\ auth_sessions = InitSessions
  /\ SchemaReady
  /\ req = [i \in 1..n |-> NoReq]

\* The state two completed lock-seat requests of session LA leave behind:
\* LA holds seats 1 and 2 of the bus (of its active trip, when it has one).
InitHeld(n) ==
  /\ now = 0
  /\ trip_schedules \in InitTrips
  /\ buses = [b \in {TheBus} |-> [capacity |-> BusCapacity, available_seats |-> BusCapacity,
                                  price |-> 100]]
  /\ seat_locks = {[id |-> k, bus_id |-> TheBus, trip_id |-> Len(trip_schedules),
                    seat_number |-> NumberToString(k), locked_by |-> "LA",
                    expires_at |-> LockTtlMinutes] : k \in {1, 2}}
  /\ next_lock_id = 3
  /\ bookings = {}
  /\ next_booking_id = 1
  /\ passengers = {}
  /\ next_passenger_id = 1
  /\ booking_receipts = {}
  /\ sms_outbox = << >>
  /\ auth_sessions = InitSessions
  /\ SchemaReady
  /\ req = [i \in 1..n |-> NoReq]

\* The state two lock-seat requests of session LA and one earlier manual
\* booking of seat 4 leave behind; auth_sessions also holds an administrator's
\* session whose expires_at has passed.
ExpiredSessions == {[token |-> "tok_old", email |-> "admin@elite", expires_at |-> -1]}

InitAdminHeld(n) ==
  /\ now = 0
  /\ trip_schedules \in InitTrips
  /\ buses = [b \in {TheBus} |->
               [capacity |-> BusCapacity,
                available_seats |-> IF trip_schedules = << >> THEN BusCapacity
                                    ELSE BusCapacity - 1,
                price |-> 100]]
  /\ seat_locks = {[id |-> k, bus_id |-> TheBus, trip_id |-> Len(trip_schedules),
                    seat_number |-> NumberToString(k), locked_by |-> "LA",
                    expires_at |-> LockTtlMinutes] : k \in {1, 2}}
  /\ next_lock_id = 3
  /\ bookings = {[id |-> 1, passenger_id |-> 1, bus_id |-> TheBus,
                  trip_id |-> Len(trip_schedules), seat_number |-> <<"4">>,
                  price_paid |-> 100, status |-> "confirmed",
                  external_ref |-> <<"admin_manual", "_", "0">>]}
  /\ next_booking_id = 2
  /\ passengers = {1}
  /\ next_passenger_id = 2
  /\ booking_receipts = {}
  /\ sms_outbox = <<[booking_id |-> 1, source |-> "manual"]>>
  /\ auth_sessions = InitSessions \cup ExpiredSessions
  /\ SchemaReady
  /\ req = [i \in 1..n |-> NoReq]

\* ------------------------------------------- SpecLock: lock-seat on one seat
\* Two clients with their own lock sessions and one client without a lockId,
\* all asking for seat 1 in the spellings the normalizer accepts.
LockRequests == 2
LockMenu == {[seat |-> <<"1">>, lockId |-> "LA"],
             [seat |-> <<"a", "1">>, lockId |-> "LB"],
             [seat |-> <<"0", "1">>, lockId |-> ""]}

InitLock == InitEmpty(LockRequests)
NextLock ==
  \/ Tick
  \/ \E i \in Requests :
       \/ \E m \in LockMenu : IssueLockSeat(i, m.seat, NULL, m.lockId)
       \/ HandleLockSeat(i)

SpecLock == InitLock /\ [][NextLock]_vars

\* ----------------- Spec: lock-seat, booking-confirm and end-trip interleaved
EngineRequests == 3
EngineLockMenu == {[seat |-> <<"1">>, lockId |-> "LA"],
                   [seat |-> <<"a", "1">>, lockId |-> "LB"]}
EngineConfirmMenu == {[seats |-> <<<<"1">>>>, lockId |-> "LA", paystackRef |-> "R1",
                       price |-> 100, unitPrice |-> 0]}

Init == InitEmpty(EngineRequests)
Next ==
  \/ Tick
  \/ \E i \in Requests :
       \/ \E m \in EngineLockMenu : IssueLockSeat(i, m.seat, NULL, m.lockId)
       \/ \E m \in EngineConfirmMenu :
            IssueBookingConfirm(i, m.seats, NULL, m.lockId, m.paystackRef, m.price, m.unitPrice)
       \/ IssueAdminManualBooking(i, "tok_admin", <<"1">>, NULL, NoPrice)
       \/ IssueAdminEndTrip(i, "tok_admin", 1)
       \/ HandleLockSeat(i)
       \/ HandleBookingConfirm(i)
       \/ HandleAdminManualBooking(i)
       \/ HandleAdminEndTrip(i)

Spec == Init /\ [][Next]_vars

\* --------- SpecBook: booking-confirm and manual booking on seats held by LA
BookRequests == 2
BookConfirmMenu == {[seats |-> <<<<"1">>>>, lockId |-> "LA", paystackRef |-> "R1",
                     price |-> 100, unitPrice |-> 0],
                    [seats |-> <<<<"2">>, <<"A", "1">>>>, lockId |-> "LA", paystackRef |-> "R1",
                     price |-> 100, unitPrice |-> 40],
                    [seats |-> <<<<"1">>>>, lockId |-> "LB", paystackRef |-> "R2",
                     price |-> NoPrice, unitPrice |-> 0]}

InitBook == InitHeld(BookRequests)
NextBook ==
  \/ Tick
  \/ \E i \in Requests :
       \/ \E m \in BookConfirmMenu :
            IssueBookingConfirm(i, m.seats, NULL, m.lockId, m.paystackRef, m.price, m.unitPrice)
       \/ IssueAdminManualBooking(i, "tok_admin", <<"1">>, NULL, NoPrice)
       \/ HandleBookingConfirm(i)
       \/ HandleAdminManualBooking(i)

SpecBook == InitBook /\ [][NextBook]_vars

\* ------ SpecRetry: booking-confirm requests that all carry one paystackRef
RetryRequests == 3
RetryConfirmMenu == {m \in BookConfirmMenu : m.paystackRef = "R1"}

InitRetry == InitHeld(RetryRequests)
NextRetry ==
  \E i \in Requests :
    \/ \E m \in RetryConfirmMenu :
         IssueBookingConfirm(i, m.seats, NULL, m.lockId, m.paystackRef, m.price, m.unitPrice)
    \/ HandleBookingConfirm(i)

SpecRetry == InitRetry /\ [][NextRetry]_vars

\* -- SpecExpiry: lock-seat and booking-confirm on a seat held by LA, with time
ExpiryRequests == 2

InitExpiry == InitHeld(ExpiryRequests)
NextExpiry ==
  \/ Tick
  \/ \E i \in Requests :
       \/ \E m \in EngineLockMenu : IssueLockSeat(i, m.seat, NULL, m.lockId)
       \/ \E m \in EngineConfirmMenu :
            IssueBookingConfirm(i, m.seats, NULL, m.lockId, m.paystackRef, m.price, m.unitPrice)
       \/ HandleLockSeat(i)
       \/ HandleBookingConfirm(i)

SpecExpiry == InitExpiry /\ [][NextExpiry]_vars

\* ------ SpecSeat: booking-confirm and manual booking racing for seat 1
SeatRequests == 2

InitSeat == InitHeld(SeatRequests)
NextSeat ==
  \/ Tick
  \/ \E i \in Requests :
       \/ \E m \in EngineConfirmMenu :
            IssueBookingConfirm(i, m.seats, NULL, m.lockId, m.paystackRef, m.price, m.unitPrice)
       \/ IssueAdminManualBooking(i, "tok_admin", <<"1">>, NULL, NoPrice)
       \/ HandleBookingConfirm(i)
       \/ HandleAdminManualBooking(i)

SpecSeat == InitSeat /\ [][NextSeat]_vars

\* -------- SpecPay: booking-confirm with and without a price to compare
PayRequests == 2
PayConfirmMenu == {[seats |-> <<<<"1">>>>, lockId |-> "LA", paystackRef |-> "R1",
                    price |-> 100, unitPrice |-> 0],
                   [seats |-> <<<<"2">>>>, lockId |-> "LA", paystackRef |-> "R2",
                    price |-> NoPrice, unitPrice |-> 0]}

InitPay == InitHeld(PayRequests)
NextPay ==
  \E i \in Requests :
    \/ \E m \in PayConfirmMenu :
         IssueBookingConfirm(i, m.seats, NULL, m.lockId, m.paystackRef, m.price, m.unitPrice)
    \/ HandleBookingConfirm(i)

SpecPay == InitPay /\ [][NextPay]_vars

\* ------------------------------------ SpecAdmin: the trip administration
\* Administrators, a customer and callers without a usable token create and
\* end trips of the bus and book seats by hand, from InitAdminHeld.
AdminRequests == 2
AdminTokens == {"tok_admin", "tok_user", "tok_old", "tok_bad", ""}
AdminTripIds == {NULL, 1, 2}

InitAdmin == InitAdminHeld(AdminRequests)
NextAdmin ==
  \E i \in Requests :
    \/ \E token \in AdminTokens : IssueAdminCreateTrip(i, token)
    \/ HandleAdminCreateTrip(i)
    \/ \E token \in AdminTokens, tripId \in AdminTripIds : IssueAdminEndTrip(i, token, tripId)
    \/ HandleAdminEndTrip(i)
    \/ \E token \in AdminTokens, seat \in {<<"1">>, <<"3">>, <<"4">>} :
         IssueAdminManualBooking(i, token, seat, NULL, NoPrice)
    \/ HandleAdminManualBooking(i)
SpecAdmin == InitAdmin /\ [][NextAdmin]_vars



\* ===================================================================== claims
SeatKeyOf(row) == normalizeSeatNumberRaw(row.seat_number, getBusCapacity(row.bus_id))
SameSeat(x, y) == /\ x.bus_id = y.bus_id /\ x.trip_id = y.trip_id
                  /\ SeatKeyOf(x) = SeatKeyOf(y)
Unexpired(l) == l.expires_at > now

\* C2: at any instant at most one unexpired seat_locks row exists per
\* (bus, trip, canonical seat), under any interleaving of lock-seat requests.
\* (SpecLock)
C2_OneUnexpiredLockPerSeat ==
  \A x \in seat_locks : \A y \in seat_locks :
    (Unexpired(x) /\ Unexpired(y) /\ SameSeat(x, y)) => x = y

\* C3: of two lock-seat requests with distinct lock sessions for the same
\* seat, neither preceded by a lock or a booking of the seat, one succeeds
\* and the other fails: both are never answered 200 while the lock of the
\* first could not have expired yet.  (SpecLock)
C3_ExactlyOneLockSucceeds ==
  \A i \in Requests : \A j \in Requests :
    (/\ i # j
     /\ req[i].kind = "lock" /\ Done(i) /\ req[i].status = 200
     /\ req[j].kind = "lock" /\ Done(j) /\ req[j].status = 200
     /\ req[i].lockId # "" /\ req[j].lockId # ""
     /\ req[i].out_seats = req[j].out_seats
     /\ now < LockTtlMinutes)
    => req[i].lockId = req[j].lockId

Confirmed(b) == b.status = "confirmed"
IsConfirm(i) == req[i].kind = "confirm"
LockExpiredError == "Seat lock expired or invalid"
RowWrites == {"passenger", "booking"}

\* C1: at most one booking with status 'confirmed' exists per (bus, trip,
\* canonical seat), a NULL trip counting as one trip value, whatever the
\* interleaving of booking-confirm and manual-booking requests.  (SpecSeat)
C1_OneConfirmedBookingPerSeat ==
  \A x \in bookings : \A y \in bookings :
    (Confirmed(x) /\ Confirmed(y) /\ SameSeat(x, y)) => x = y

\* C1 happens: a request had its passenger row written and its booking
\* insert refused because the seat had been confirmed meanwhile.
C1_InsertRefused ==
  \E i \in Requests :
    /\ Done(i) /\ req[i].error = "Seat already booked" /\ "passenger" \in req[i].effects
    /\ \E b \in bookings : Confirmed(b) /\ SeatKeyOf(b) = req[i].seats[1]

\* C4: whenever no request is mid-execution, no unexpired seat lock exists
\* for a (bus, trip, seat) that has a confirmed booking.  (Spec)
C4_NoLockOnBookedSeat ==
  Quiescent =>
    \A l \in seat_locks : \A b \in bookings :
      ~(Unexpired(l) /\ Confirmed(b) /\ SameSeat(l, b))

\* C5: once a booking-confirm carrying reference r has succeeded, the set of
\* booking rows whose external_ref is r or starts with r ':' never changes,
\* also while other requests carrying r are running.  (SpecBook)
C5_RefRowsNeverChange ==
  [][\A ref \in {"R1", "R2"} :
       SucceededWith(ref) # {} => BookingsOfRef(ref)' = BookingsOfRef(ref)]_vars

\* C6: a booking-confirm issued after a booking-confirm of the same reference
\* has succeeded is answered duplicate: true with the booking_ids of that
\* request, and verifies nothing, inserts no passenger and no booking, deletes
\* no lock, calls no receipt service and sends no SMS.  (SpecRetry)
C6_RetryIsDuplicate ==
  \A j \in Requests :
    (IsConfirm(j) /\ Done(j) /\ req[j].retryOf # 0) =>
      /\ req[j].status = 200
      /\ req[j].duplicate
      /\ req[j].booking_ids = req[req[j].retryOf].booking_ids
      /\ req[j].effects = {}

\* C7: the duplicate response to a retry reports the seats and the price of
\* the response of the request that created the bookings, also when
\* unitPrice times the seat count differs from price.  (SpecBook)
C7_DuplicateSameSeatsAndPrice ==
  \A j \in Requests :
    (IsConfirm(j) /\ Done(j) /\ req[j].duplicate /\ req[j].retryOf # 0) =>
      /\ req[j].out_seats = req[req[j].retryOf].out_seats
      /\ req[j].out_price = req[req[j].retryOf].out_price

\* C8: a booking-confirm writes a passenger or booking row only after the
\* processor answered status success and, for a finite price, an amount of
\* round(price * 100); a request whose verification failed is answered with
\* an error and has written nothing.  (SpecPay)
C8_RowsOnlyAfterVerifiedPayment ==
  \A i \in Requests :
    IsConfirm(i) =>
      /\ (req[i].effects \cap RowWrites # {}) =>
           /\ "verify" \in req[i].effects
           /\ req[i].paystack = "success"
           /\ (req[i].price # NoPrice => req[i].amountKobo = ExpectedKobo(req[i].price))
      /\ ("verify" \in req[i].effects /\
          (req[i].paystack # "success" \/
           (req[i].price # NoPrice /\ req[i].amountKobo # ExpectedKobo(req[i].price)))) =>
           /\ Done(i) /\ req[i].status = 400
           /\ req[i].effects = {"verify"}

\* C8 happens: one request was refused for an amount mismatch while another
\* one was verified and wrote its rows.
C8_MismatchRefusedAndPaidBooked ==
  /\ \E i \in Requests : Done(i) /\ req[i].error = "Payment amount mismatch"
  /\ \E i \in Requests : IsConfirm(i) /\ Done(i) /\ req[i].status = 200
                         /\ "booking" \in req[i].effects

\* C9: a booking-confirm succeeds only if every requested seat has an
\* unexpired lock of the request's lockId for (bus, resolved trip, seat);
\* a request answered with the lock-expired error wrote no passenger and no
\* booking row.  (Spec)
C9_SuccessOnlyWithOwnedLocks ==
  \A i \in Requests :
    (IsConfirm(i) /\ Done(i)) =>
      /\ (req[i].status = 200 /\ ~req[i].duplicate) => req[i].ownedProof
      /\ req[i].error = LockExpiredError => req[i].effects \cap RowWrites = {}

OwnsUnexpiredLock(busId, lockId, seatKey) ==
  \E l \in seat_locks : /\ l.bus_id = busId /\ l.locked_by = lockId
                        /\ Unexpired(l) /\ SeatKeyOf(l) = seatKey
BlockedByAnother(busId, lockOwner, seatKey) ==
  \E l \in seat_locks : /\ l.bus_id = busId /\ l.locked_by # lockOwner
                        /\ Unexpired(l) /\ SeatKeyOf(l) = seatKey

\* C10: a lock stops blocking at its expires_at without any sweeper: a
\* lock-seat is refused as locked by another user only while an unexpired
\* lock of another owner is on the seat, and a booking-confirm whose session
\* holds no unexpired lock on a seat is answered lock-expired and leaves the
\* passengers and bookings as they are.  (SpecExpiry)
C10_ExpiredLockStopsBlocking ==
  [][\A i \in Requests :
       /\ (/\ req[i].pc = "lock_read"
           /\ req'[i].error = "Seat already locked by another user")
          => BlockedByAnother(req[i].busId, req[i].lockOwner, req[i].seatKeys[1])
       /\ (/\ req[i].pc = "confirm_locks" /\ req'[i] # req[i]
           /\ ~OwnsUnexpiredLock(req[i].busId, req[i].lockId, req[i].seatKeys[req[i].idx]))
          => /\ req'[i].pc = "done" /\ req'[i].error = LockExpiredError
             /\ bookings' = bookings /\ passengers' = passengers]_vars

\* C10 happens: LA's lock on seat 1 ran out unrefreshed, LB's lock-seat
\* removed it and succeeded, and LA's booking-confirm was answered
\* lock-expired; no booking exists.
C10_TakenOverAfterExpiry ==
  /\ \E i \in Requests : req[i].kind = "lock" /\ req[i].lockId = "LB" /\ req[i].status = 200
  /\ \E i \in Requests : IsConfirm(i) /\ req[i].lockId = "LA"
                         /\ req[i].error = LockExpiredError
  /\ \E l \in seat_locks : SeatKeyOf(l) = <<"1">> /\ l.locked_by = "LB" /\ Unexpired(l)
  /\ \A l \in seat_locks : SeatKeyOf(l) = <<"1">> => l.locked_by = "LB"
  /\ bookings = {}

\* ----------------- SpecTrip: the administrator scheduling and ending trips
TripRequests == 3

InitTrip == InitAdminHeld(TripRequests)
NextTrip ==
  \E i \in Requests :
    \/ IssueAdminCreateTrip(i, "tok_admin")
    \/ HandleAdminCreateTrip(i)
    \/ \E tripId \in {1, 2} : IssueAdminEndTrip(i, "tok_admin", tripId)
    \/ HandleAdminEndTrip(i)
SpecTrip == InitTrip /\ [][NextTrip]_vars

\* ------------------------------------------------------------ the trips
IsAdminCall(r) == r.kind \in {"createtrip", "endtrip", "manual"}
ActiveTripsOf(busId) ==
  {t \in TripIds : trip_schedules[t].bus_id = busId /\ trip_schedules[t].status = "active"}
Terminal(status) == status \in {"completed", "cancelled"}

\* C13: a bus never has more than one trip_schedules row with status
\* 'active', whatever the interleaving of the create-trip requests.
C13_OneActiveTripPerBus ==
  \A busId \in DOMAIN buses : Cardinality(ActiveTripsOf(busId)) <= 1

\* C19: every trip row is inserted with status 'active', and a trip whose
\* status is 'completed' or 'cancelled' keeps that status on every step.
C19_TripStatusMonotone ==
  [][/\ \A t \in TripIds :
          /\ t \in DOMAIN trip_schedules'
          /\ Terminal(trip_schedules[t].status)
                => trip_schedules'[t].status = trip_schedules[t].status
     /\ \A t \in DOMAIN trip_schedules' :
          t \notin TripIds => trip_schedules'[t].status = "active"]_vars

\* C19 witness: trip 1 was ended and a later create-trip put the bus on a new
\* active trip; the ended trip is still completed.
C19_CompletedTripBesideNewTrip ==
  /\ Len(trip_schedules) >= 2
  /\ trip_schedules[1].status = "completed"
  /\ trip_schedules[2].status = "active"
  /\ \E i \in Requests : req[i].kind = "createtrip" /\ Done(i) /\ req[i].status = 200

\* ------------------------------------------------------------ end-trip
IsEndTrip(i) == req[i].kind = "endtrip"
LocksOfTrip(locks, tripId) == {l \in locks : l.trip_id = tripId}

Unauthorized(token) ==
  getSessionUser(token).err # "" \/ ~isAdminEmail(getSessionUser(token).email)

\* C17: an admin endpoint called with a missing, unknown or expired token, or
\* with the session of an email outside the allow-list, answers 403.
C17_UnauthorizedAnswers403 ==
  \A i \in Requests :
    IsAdminCall(req[i]) /\ Done(i) /\ Unauthorized(req[i].token) => req[i].status = 403

\* ---------- SpecGuard: the locks LA holds while others lock, unlock and pay
\* LA holds seats 1 and 2; session LB and LA itself lock and unlock seat 1, LB
\* confirms a booking of it, the clock runs and the administrator schedules
\* or ends a trip of the bus.
GuardRequests == 2

InitGuard == InitHeld(GuardRequests)
NextGuard ==
  \/ Tick
  \/ \E i \in Requests :
       \/ \E m \in EngineLockMenu : IssueLockSeat(i, m.seat, NULL, m.lockId)
       \/ HandleLockSeat(i)
       \/ \E m \in EngineLockMenu : IssueUnlockSeat(i, m.seat, NULL, m.lockId)
       \/ HandleUnlockSeat(i)
       \/ IssueBookingConfirm(i, <<<<"1">>>>, NULL, "LB", "R1", 100, 0)
       \/ HandleBookingConfirm(i)
       \/ IssueAdminCreateTrip(i, "tok_admin")
       \/ HandleAdminCreateTrip(i)
       \/ IssueAdminEndTrip(i, "tok_admin", 1)
       \/ HandleAdminEndTrip(i)
SpecGuard == InitGuard /\ [][NextGuard]_vars

\* C12: when a step of a lock-seat, unlock-seat or booking-confirm request
\* removes a seat_locks row that has not expired, the lockId of the request is
\* the locked_by of the row.
C12_UnexpiredLockRemovedOnlyByOwner ==
  [][\A l \in seat_locks :
       Unexpired(l) /\ (\A k \in seat_locks' : k.id # l.id)
         => \A i \in Requests :
              req'[i] # req[i] /\ req[i].kind \in {"lock", "unlock", "confirm"}
                => req[i].lockId = l.locked_by]_vars

\* ------------- SpecHook: webhooks about a booking still pending under R1
\* The bookings table holds a row of reference R1 for seat 1 that is not
\* confirmed yet; nothing holds the seat.
InitPending(n) ==
  /\ now = 0
  /\ trip_schedules \in InitTrips
  /\ buses = [b \in {TheBus} |-> [capacity |-> BusCapacity, available_seats |-> BusCapacity,
                                  price |-> 100]]
  /\ seat_locks = {}
  /\ next_lock_id = 1
  /\ bookings = {[id |-> 1, passenger_id |-> 1, bus_id |-> TheBus,
                  trip_id |-> Len(trip_schedules), seat_number |-> <<"1">>,
                  price_paid |-> 100, status |-> "pending", external_ref |-> <<"R1">>]}
  /\ next_booking_id = 2
  /\ passengers = {1}
  /\ next_passenger_id = 2
  /\ booking_receipts = {}
  /\ sms_outbox = << >>
  /\ auth_sessions = InitSessions
  /\ SchemaReady
  /\ req = [i \in 1..n |-> NoReq]

HookRequests == 2

InitHook == InitPending(HookRequests)
NextHook ==
  \E i \in Requests :
    \/ \E rawBody \in WebhookBodies, signature \in WebhookSignatures :
         IssueWebhook(i, rawBody, signature)
    \/ HandlePaystackWebhook(i)
    \/ IssueAdminManualBooking(i, "tok_admin", <<"1">>, NULL, NoPrice)
    \/ HandleAdminManualBooking(i)
SpecHook == InitHook /\ [][NextHook]_vars

\* ------------------------------------------------------------ the webhook
IsWebhook(i) == req[i].kind = "webhook"
TwoConfirmedOnOneSeat(rows) ==
  \E x, y \in rows : x.id # y.id /\ Confirmed(x) /\ Confirmed(y) /\ SameSeat(x, y)

\* C11: no step of a webhook request leaves two confirmed bookings on the
\* same (bus, trip, seat), also when the seat of a booking it promotes has
\* another confirmed booking.
C11_PromotionKeepsOneConfirmedPerSeat ==
  [][\A i \in Requests :
       IsWebhook(i) /\ req'[i] # req[i] => ~TwoConfirmedOnOneSeat(bookings')]_vars

\* C14: a webhook request whose signature is not the digest of its raw body
\* is answered 401 by its first step, which changes no table row, calls
\* neither the receipt service nor the SMS gateway, and ends the request.
C14_BadSignatureRefused ==
  [][\A i \in Requests :
       IsWebhook(i) /\ req'[i] # req[i] /\ req[i].signature # hmacSha512Hex(req[i].rawBody)
         => /\ req'[i].pc = "done" /\ req'[i].status = 401
            /\ req'[i].effects = {}
            /\ UNCHANGED <<db, sms_outbox>>]_vars

\* C14 witness: a charge.success body for R1 came with the digest of another
\* body (same length, one digit off) and was refused; the booking of R1 is
\* still pending and no SMS went out.
C14_ForgedSuccessRefused ==
  /\ \E i \in Requests : /\ IsWebhook(i) /\ Done(i) /\ req[i].status = 401
                         /\ req[i].rawBody = "B1"
                         /\ req[i].signature = hmacSha512Hex("B2")
  /\ \A b \in bookings : b.status = "pending"
  /\ sms_outbox = << >>

\* C15: a webhook that arrives after a charge.success webhook with the same
\* body has been processed and answered sends no SMS.
C15_SecondWebhookSendsNoSms ==
  [][\A i \in Requests :
       IsWebhook(i) /\ req[i].retryOf # 0 /\ req'[i] # req[i]
         => sms_outbox' = sms_outbox]_vars

\* ----------------------------------------------- the best-effort calls
SeqToSet(seq) == {seq[k] : k \in 1..Len(seq)}
ReachedReceiptCall(i) == IsConfirm(i) /\ "gas" \in req[i].effects

\* C16: a booking-confirm that got as far as the receipt service returns the
\* confirmation (200, the ids of its bookings) whatever the receipt service
\* and the SMS gateway answered; those bookings are confirmed rows, and its
\* session holds no lock on the seats it booked.
C16_ConfirmSurvivesFailedSideEffects ==
  \A i \in Requests :
    ReachedReceiptCall(i) /\ Done(i) =>
      /\ req[i].status = 200 /\ ~req[i].duplicate
      /\ req[i].booking_ids # << >>
      /\ \A id \in SeqToSet(req[i].booking_ids) :
           \E b \in bookings : b.id = id /\ Confirmed(b)
      /\ "unlock" \in req[i].effects
      /\ ~\E l \in seat_locks : /\ l.locked_by = req[i].lockId
                                /\ SeatKeyOf(l) \in SeqToSet(req[i].out_seats)

\* C16 witness: the receipt service gave no URL and the SMS gateway failed,
\* yet the request answered 200 and its booking of seat 1 is confirmed.
C16_ConfirmedDespiteBothFailing ==
  \E i \in Requests :
    /\ ReachedReceiptCall(i) /\ Done(i) /\ req[i].status = 200
    /\ req[i].receiptUrl = "" /\ ~req[i].smsOk
    /\ \E b \in bookings : /\ b.id = req[i].booking_ids[1] /\ Confirmed(b)
                           /\ b.seat_number = <<"1">>
    /\ ~\E l \in seat_locks : l.seat_number = <<"1">>

\* ------------------------------------------------- the manual booking
IsManual(i) == req[i].kind = "manual"
TakenBy(rows, r) ==
  \E x \in rows : /\ x.bus_id = r.busId /\ x.trip_id = r.tripKey
                  /\ SeatKeyOf(x) = r.seatKeys[1]

\* C20: a manual booking is refused as booked only when the seat has a
\* confirmed booking for (bus, resolved trip), and as locked only when it has
\* an unexpired lock for (bus, resolved trip); a seat free of both is booked.
C20_ManualRefusedOnlyWhenTaken ==
  [][\A i \in Requests : IsManual(i) /\ req'[i].pc = "done" =>
       /\ req[i].pc = "manual_booked"
            => TakenBy({b \in bookings : Confirmed(b)}, req[i])
       /\ req[i].pc = "manual_locked"
            => TakenBy({l \in seat_locks : Unexpired(l)}, req[i])]_vars

\* ------------------- SpecSeatKey: the seat normalizer on its own inputs
\* One frame holds a seat value and a capacity; the steps apply
\* normalizeSeatNumberRaw and canonicalSeatToLegacy to it.  The seat values
\* are all texts of up to MaxSeatLen characters of SeatAlphabet, the
\* capacities run to MaxCapacity (12 rows of 10, row letters A to L).
MaxSeatLen == 3
MaxCapacity == 120
SeatAlphabet == {"0", "1", "2", "9", "a", "b", "l", "L", " ", "x"}
SeatInputs == UNION {[1..k -> SeatAlphabet] : k \in 0..MaxSeatLen}
SeatCapacities == {0, BusCapacity, MaxCapacity}

InitSeatKey ==
  /\ now = 0
  /\ trip_schedules = << >>
  /\ buses = [b \in {TheBus} |-> [capacity |-> BusCapacity, available_seats |-> BusCapacity,
                                  price |-> 100]]
  /\ seat_locks = {}
  /\ next_lock_id = 1
  /\ bookings = {}
  /\ next_booking_id = 1
  /\ passengers = {}
  /\ next_passenger_id = 1
  /\ booking_receipts = {}
  /\ sms_outbox = << >>
  /\ auth_sessions = InitSessions
  /\ SchemaReady
  /\ \/ \E seatValue \in SeatInputs, capacity \in SeatCapacities :
          req = <<[NoReq EXCEPT !.kind = "normalize", !.pc = "norm_input",
                                !.seats = <<seatValue>>, !.count = capacity]>>
     \/ \E capacity \in 1..MaxCapacity : \E n \in 1..capacity :
          req = <<[NoReq EXCEPT !.kind = "roundtrip", !.pc = "legacy_input",
                                !.seats = <<NumberToString(n)>>, !.count = capacity]>>

\* key = normalizeSeatNumberRaw(seat, capacity)
NormalizeOnce(i) ==
  /\ req[i].pc = "norm_input"
  /\ req' = [req EXCEPT ![i].pc = "norm_once",
                        ![i].seatKeys = <<normalizeSeatNumberRaw(req[i].seats[1], req[i].count)>>]
  /\ UNCHANGED <<now, db, sms_outbox>>

\* normalizeSeatNumberRaw(key, capacity), as every later read of a stored key does
NormalizeAgain(i) ==
  /\ req[i].pc = "norm_once"
  /\ req' = [req EXCEPT ![i].pc = "done",
                        ![i].out_seats = <<req[i].seatKeys[1],
                                           normalizeSeatNumberRaw(req[i].seatKeys[1],
                                                                  req[i].count)>>]
  /\ UNCHANGED <<now, db, sms_outbox>>

\* legacySeat = canonicalSeatToLegacy(seatKey)
ToLegacy(i) ==
  /\ req[i].pc = "legacy_input"
  /\ req' = [req EXCEPT ![i].pc = "legacy_key",
                        ![i].seatKeys = <<canonicalSeatToLegacy(req[i].seats[1])>>]
  /\ UNCHANGED <<now, db, sms_outbox>>

\* normalizeSeatNumberRaw of a row stored in legacy form
FromLegacy(i) ==
  /\ req[i].pc = "legacy_key"
  /\ req' = [req EXCEPT ![i].pc = "done",
                        ![i].out_seats = <<normalizeSeatNumberRaw(req[i].seatKeys[1],
                                                                  req[i].count)>>]
  /\ UNCHANGED <<now, db, sms_outbox>>

NextSeatKey ==
  \E i \in Requests :
    \/ NormalizeOnce(i) \/ NormalizeAgain(i) \/ ToLegacy(i) \/ FromLegacy(i)
SpecSeatKey == InitSeatKey /\ [][NextSeatKey]_vars

\* C22: for every capacity and every n in 1..capacity, normalizing the
\* legacy form of n gives back the decimal string of n.
C22_LegacyRoundTrip ==
  \A i \in Requests :
    req[i].kind = "roundtrip" /\ Done(i) => req[i].out_seats = req[i].seats

\* The seat number a trimmed, upper-cased text stands for, read form by form
\* in the order of the table of accepted inputs; 0 when it has none.
SeatNumberOf(raw) ==
  IF raw # << >> /\ AllDigits(raw) THEN DigitsToNumber(raw)
  ELSE IF Len(raw) >= 2 /\ Head(raw) = "L" /\ AllDigits(Tail(raw)) THEN DigitsToNumber(Tail(raw))
  ELSE IF /\ Len(raw) >= 2 /\ IsUpper(Head(raw)) /\ AllDigits(Tail(raw))
          /\ DigitsToNumber(Tail(raw)) \in 1..10
       THEN LetterRow(Head(raw)) * 10 + DigitsToNumber(Tail(raw))
  ELSE 0

\* C36: normalizeSeatNumberRaw(x, C) is the decimal string of n when the
\* trimmed, upper-cased x is a bare decimal or "L" and a decimal (n its
\* value) or a row letter and a column 1..10 (n = row * 10 + column) and n is
\* in 1..C, and null for every other x and every other n; C is 50 when the
\* capacity is unknown.
C36_NormalizerAcceptsExactlyTheForms ==
  \A i \in Requests :
    req[i].kind = "normalize" /\ req[i].pc \in {"norm_once", "done"} =>
      LET n == SeatNumberOf(ToUpperCase(Trim(req[i].seats[1])))
          C == IF req[i].count = 0 THEN DefaultCapacity ELSE req[i].count
      IN req[i].seatKeys[1] = IF n >= 1 /\ n <= C THEN NumberToString(n) ELSE NoSeat

\* C36 witness: " l9" under an unknown capacity was normalized to "9".
C36_LowerCaseLPrefixUnderDefault ==
  \E i \in Requests :
    /\ req[i].kind = "normalize" /\ req[i].pc = "norm_once"
    /\ req[i].seats = <<<<" ", "l", "9">>>> /\ req[i].count = 0
    /\ req[i].seatKeys = <<<<"9">>>>

\* C23: whenever the normalizer yields a key, normalizing that key under the
\* same capacity yields the same key.
C23_NormalizeIdempotent ==
  \A i \in Requests :
    req[i].kind = "normalize" /\ Done(i) /\ req[i].out_seats[1] # NoSeat
      => req[i].out_seats[2] = req[i].out_seats[1]

\* C23 witness: the legacy label "b02" was normalized to "12" under capacity
\* 12, and "12" to itself.
C23_LegacyLabelNormalizedTwice ==
  \E i \in Requests :
    /\ req[i].kind = "normalize" /\ Done(i)
    /\ req[i].seats = <<<<"b", "0", "2">>>> /\ req[i].count = BusCapacity
    /\ req[i].out_seats = <<<<"1", "2">>, <<"1", "2">>>>

\* ------------------------------------------ POST /api/auth/signin handler
\* `tok_${userId}_${Date.now()}_${random}`: a fresh token per request
GeneratedToken(i) == <<"tok_gen_1", "tok_gen_2", "tok_gen_3", "tok_gen_4", "tok_gen_5">>[i]
\* the emails of the users table
UserEmails == {"admin@elite", "user@elite"}

IssueEmailSignIn(i, email, passwordValid) ==
  /\ MayIssue(i)
  /\ req' = [req EXCEPT ![i] = [NoReq EXCEPT !.kind = "signin", !.pc = "signin_user",
                                            !.email = email,
                                            !.passwordValid = passwordValid]]
  /\ UNCHANGED <<now, db, sms_outbox>>

\* SELECT the user, verifyPassword
SignInUser(i) ==
  /\ req[i].pc = "signin_user"
  /\ LET r == req[i] IN
     req' = [req EXCEPT ![i] =
       IF r.email = "" THEN Returned(r, 400, "Email and password required")
       ELSE IF r.email \notin UserEmails THEN Returned(r, 400, "User not found")
       ELSE IF ~r.passwordValid THEN Returned(r, 400, "Invalid password")
       ELSE [r EXCEPT !.pc = "signin_session"]]
  /\ UNCHANGED <<now, db, sms_outbox>>

\* expiresAt = Date.now() + 7 days; INSERT INTO auth_sessions; the response
SignInSession(i) ==
  /\ req[i].pc = "signin_session"
  /\ auth_sessions' = auth_sessions \cup
       {[token |-> GeneratedToken(i), email |-> req[i].email,
         expires_at |-> now + SessionTtlMinutes]}
  /\ req' = [req EXCEPT ![i] = [Returned(req[i], 200, "") EXCEPT
                                  !.out_token = GeneratedToken(i)]]
  /\ UNCHANGED <<now, trips_buses, lock_tables, booking_tables, passenger_tables,
                 booking_receipts, sms_outbox, schema>>

HandleEmailSignIn(i) == SignInUser(i) \/ SignInSession(i)

\* ------------------------------------------ POST /api/auth/verify handler
IssueVerifyToken(i, token) ==
  /\ MayIssue(i)
  /\ req' = [req EXCEPT ![i] = [NoReq EXCEPT !.kind = "verify", !.pc = "verify_session",
                                            !.token = token]]
  /\ UNCHANGED <<now, db, sms_outbox>>

\* SELECT the session, the expiry check: any error is answered 401
VerifySession(i) ==
  /\ req[i].pc = "verify_session"
  /\ LET r == req[i]
         user == getSessionUser(r.token)
     IN req' = [req EXCEPT ![i] =
          IF user.err # "" THEN Returned(r, 401, user.err)
          ELSE [r EXCEPT !.pc = "verify_user", !.email = user.email]]
  /\ UNCHANGED <<now, db, sms_outbox>>

\* SELECT the user, the {valid: true} response
VerifyUser(i) ==
  /\ req[i].pc = "verify_user"
  /\ req' = [req EXCEPT ![i] = Returned(req[i], 200, "")]
  /\ UNCHANGED <<now, db, sms_outbox>>

HandleVerifyToken(i) == VerifySession(i) \/ VerifyUser(i)

\* ------------------------- SpecSession: sessions over a week and a half
\* The clock of this specification moves in half weeks, so that a session
\* is looked at before, at and after its expires_at.
MaxHalfWeeks == 3
HalfWeek == SessionTtlMinutes \div 2
TickHalfWeek ==
  /\ now + HalfWeek <= MaxHalfWeeks * HalfWeek
  /\ now' = now + HalfWeek
  /\ UNCHANGED <<db, sms_outbox, req>>

SessionRequests == 2
\* the tokens a client may present: every stored one, an unknown one, none
KnownTokens == {x.token : x \in auth_sessions} \cup {"tok_bad", ""}

InitSession == InitAdminHeld(SessionRequests) /\ trip_schedules # << >>
NextSession ==
  \/ TickHalfWeek
  \/ \E i \in Requests :
       \/ \E email \in UserEmails \cup {"nobody@elite"}, passwordValid \in BOOLEAN :
            IssueEmailSignIn(i, email, passwordValid)
       \/ HandleEmailSignIn(i)
       \/ \E token \in KnownTokens : IssueVerifyToken(i, token)
       \/ HandleVerifyToken(i)
       \/ \E token \in KnownTokens : IssueAdminEndTrip(i, token, 1)
       \/ HandleAdminEndTrip(i)
SpecSession == InitSession /\ [][NextSession]_vars

\* ------------------------------------------------------------ the sessions
LiveSession(token) ==
  \E x \in auth_sessions : x.token = token /\ x.expires_at >= now
TokenErrors == {"Token required", "Invalid token", "Token expired"}
ChecksToken(r) == r.pc \in {"verify_session", "end_auth"}

\* C21: a request that checks its bearer token is turned away with a token
\* error exactly when no auth_sessions row has the token with an expires_at
\* that is not in the past; every row inserted expires 7 days after the
\* instant of its insert; no step removes a row or changes its expires_at.
C21_TokenAcceptedWhileLive ==
  [][/\ \A i \in Requests : ChecksToken(req[i]) /\ req'[i] # req[i] =>
          (req'[i].error \in TokenErrors <=> ~LiveSession(req[i].token))
     /\ \A x \in auth_sessions' :
          x \notin auth_sessions => x.expires_at = now + SessionTtlMinutes
     /\ auth_sessions \subseteq auth_sessions']_vars

\* C21 witness: a sign-in at minute 0 stored a row that expires at 7 days,
\* the row is still there unchanged half a week after that instant, and a
\* request presenting its token then was refused as expired.
C21_IssuedThenExpired ==
  \E i, k \in Requests :
    /\ req[i].kind = "signin" /\ Done(i) /\ req[i].status = 200
    /\ [token |-> req[i].out_token, email |-> req[i].email,
        expires_at |-> SessionTtlMinutes] \in auth_sessions
    /\ req[k].kind = "verify" /\ Done(k) /\ req[k].token = req[i].out_token
    /\ req[k].status = 401 /\ req[k].error = "Token expired"
    /\ now = SessionTtlMinutes + HalfWeek

\* a session presented at the very instant of its expires_at is accepted
C21_AcceptedAtExpiryInstant ==
  \E j \in Requests :
    /\ req[j].kind = "verify" /\ Done(j) /\ req[j].status = 200
    /\ req[j].token = "tok_user" /\ now = SessionTtlMinutes

\* ------- SpecRollback: a two-seat booking-confirm beside a one-seat one
\* Session LA holds seats 1 and 2 and sends a confirm for both and a confirm
\* for seat 2 alone, under a second reference or as a retry of the first;
\* the bus has an active trip and the requests name no trip.
RollbackRequests == 2
RollbackConfirmMenu == {[seats |-> <<<<"1">>, <<"2">>>>, paystackRef |-> "R1"],
                        [seats |-> <<<<"2">>>>, paystackRef |-> "R2"],
                        [seats |-> <<<<"2">>>>, paystackRef |-> "R1"]}

InitRollback == InitHeld(RollbackRequests) /\ trip_schedules # << >>
NextRollback ==
  \E i \in Requests :
    \/ \E m \in RollbackConfirmMenu :
         IssueBookingConfirm(i, m.seats, NULL, "LA", m.paystackRef, 100, 0)
    \/ HandleBookingConfirm(i)
SpecRollback == InitRollback /\ [][NextRollback]_vars

\* ------------------------------------------------------------ the rollback
\* the rows a request wrote: they carry the id of the passenger it inserted
RowsOfPassenger(passengerId, rows) == {b \in rows : b.passenger_id = passengerId}
\* the requests that answered 200 after inserting rows of their own
Booked(i) == IsConfirm(i) /\ Done(i) /\ req[i].status = 200 /\ ~req[i].duplicate

\* C24: a booking-confirm whose conditional insert is refused goes on to its
\* rollback; when it answers, it answers 400 seat-already-booked and neither
\* a bookings row nor a passengers row of the passenger it inserted is left;
\* once every request has answered, bookings and passengers hold only the
\* rows of the requests that answered 200, whatever the interleaving was.
C24_RefusedInsertLeavesNoRows ==
  [][/\ \A i \in Requests :
          /\ req[i].pc = "confirm_insert" /\ req'[i] # req[i] /\ bookings' = bookings
               => req'[i].pc \in {"confirm_rollback", "confirm_rollback_passenger"}
          /\ req[i].pc \in {"confirm_rollback", "confirm_rollback_passenger"}
               /\ req'[i].pc = "done"
               => /\ req'[i].status = 400
                  /\ req'[i].error = "Seat already booked"
                  /\ req[i].passengerId \notin passengers'
                  /\ RowsOfPassenger(req[i].passengerId, bookings') = {}
     /\ (\A i \in Requests : Done(i))' =>
          /\ Cardinality(passengers') = Cardinality({i \in Requests : Booked(i)'})
          /\ \A b \in bookings' : \E i \in Requests :
               Booked(i)' /\ b.id \in SeqToSet(req'[i].booking_ids)]_vars

\* C24 witness: a two-seat request inserted its first row, was refused on
\* the second because the other request had taken seat 2 meanwhile, answered
\* seat-already-booked, and the only rows left are the other request's.
C24_RolledBackAfterFirstSeat ==
  \E i, j \in Requests :
    /\ IsConfirm(i) /\ Done(i) /\ req[i].error = "Seat already booked"
    /\ "booking" \in req[i].effects /\ Len(req[i].seats) = 2
    /\ Booked(j)
    /\ Cardinality(bookings) = 1 /\ Cardinality(passengers) = 1

\* ------------------------------------------------- the lock-seat answers
\* an unexpired lock of another owner on exactly the request's (bus, trip, seat)
HeldByAnother(r) ==
  \E l \in seat_locks : /\ l.bus_id = r.busId /\ l.trip_id = r.tripKey
                        /\ l.locked_by # r.lockOwner /\ Unexpired(l)
                        /\ SeatKeyOf(l) = r.seatKeys[1]

\* C25: a lock-seat that reads the locks while an unexpired lock of another
\* owner is on its (bus, trip, seat) is answered seat-already-locked, and its
\* read leaves every seat_locks row as it was.  (Spec)
C25_OtherOwnersLockRefuses ==
  [][\A i \in Requests :
       (req[i].pc = "lock_read" /\ req'[i] # req[i] /\ HeldByAnother(req[i])) =>
         /\ req'[i].error = "Seat already locked by another user"
         /\ seat_locks' = seat_locks]_vars

\* a confirmed booking on exactly the request's (bus, resolved trip, seat),
\* whatever the stored form of its seat_number
BookedSeat(r) ==
  \E b \in bookings : /\ b.bus_id = r.busId /\ b.trip_id = r.tripKey /\ Confirmed(b)
                      /\ SeatKeyOf(b) = r.seatKeys[1]

\* C26: a lock-seat that checks a seat while a confirmed booking is on its
\* (bus, resolved trip, seat) goes no further than the booked check, and the
\* answer it then gives is seat-already-booked.  (Spec)
C26_BookedSeatRefused ==
  [][\A i \in Requests :
       (/\ req[i].pc \in {"lock_read", "lock_booked"} /\ req'[i] # req[i]
        /\ BookedSeat(req[i])) =>
         /\ req'[i].pc \in {"lock_booked", "done"}
         /\ req'[i].pc = "done" => req'[i].error = "Seat already booked"
         /\ req[i].pc = "lock_booked" => req'[i].pc = "done"]_vars

\* the unexpired rows the request's owner holds on its (bus, trip, seat)
OwnRows(r) ==
  {l \in seat_locks : /\ l.bus_id = r.busId /\ l.trip_id = r.tripKey
                      /\ l.locked_by = r.lockOwner /\ Unexpired(l)
                      /\ SeatKeyOf(l) = r.seatKeys[1]}
OwnerHoldsOneRowPerSeat ==
  \A x \in seat_locks : \A y \in seat_locks :
    (SameSeat(x, y) /\ x.locked_by = y.locked_by) => x = y

\* C27: a lock-seat that writes while its owner holds an unexpired lock on
\* the seat moves that row's expires_at to the 5-minute expiry it computed,
\* inserts no row and returns the lockId it was given; no owner ever holds
\* two seat_locks rows for one (bus, trip, seat).  (SpecLock)
C27_OwnerRelockExtends ==
  [][/\ \A i \in Requests :
          (req[i].pc = "lock_write" /\ req'[i] # req[i] /\ OwnRows(req[i]) # {}) =>
            /\ next_lock_id' = next_lock_id
            /\ \A l \in OwnRows(req[i]) :
                 [l EXCEPT !.expires_at = req[i].expiresAt] \in seat_locks'
            /\ req'[i].lock_id = req[i].lockId
     /\ OwnerHoldsOneRowPerSeat']_vars

\* ------------------ SpecUnlock: unlock-seat requests, repeated, and a re-lock
\* Session LA holds seats 1 and 2; unlock-seat requests with its lockId, with
\* another one and with none arrive, alone or twice, beside a lock-seat.
UnlockRequests == 2
UnlockSeats == {<<"1">>, <<"a", "1">>, <<"2">>}
UnlockLockIds == {"LA", "LB", ""}

InitUnlock == InitHeld(UnlockRequests)
NextUnlock ==
  \/ Tick
  \/ \E i \in Requests :
       \/ \E seat \in UnlockSeats, lockId \in UnlockLockIds :
            IssueUnlockSeat(i, seat, NULL, lockId)
       \/ HandleUnlockSeat(i)
       \/ IssueLockSeat(i, <<"1">>, NULL, "LA")
       \/ HandleLockSeat(i)
SpecUnlock == InitUnlock /\ [][NextUnlock]_vars

\* ------------------------------------------------------------ the unlock
IsUnlock(i) == req[i].kind = "unlock"
\* the rows an unlock-seat is about: the session's locks on its seat, of the
\* resolved trip when there is one
UnlockTargets(r, rows) ==
  {l \in rows : /\ l.bus_id = r.busId /\ l.locked_by = r.lockId
                /\ SeatKeyOf(l) = r.seatKeys[1]
                /\ (r.tripKey # NULL => l.trip_id = r.tripKey)}

\* C28: an unlock-seat with a lockId is answered 200 whether or not it finds
\* a row; it removes the locks of that session on that seat and nothing else
\* and leaves none of them behind, so that repeating it changes nothing; an
\* unlock-seat without a lockId is answered 400 and touches no row.
C28_UnlockIdempotent ==
  [][\A i \in Requests : (IsUnlock(i) /\ req'[i] # req[i]) =>
       /\ req[i].pc = "unlock_delete" =>
            /\ req'[i].status = 200
            /\ seat_locks' = seat_locks \ UnlockTargets(req[i], seat_locks)
            /\ UnlockTargets(req[i], seat_locks') = {}
            /\ UnlockTargets(req[i], seat_locks) = {} => seat_locks' = seat_locks
       /\ req[i].lockId = "" =>
            /\ req'[i].status = 400 /\ req'[i].error = "Lock ID required"
            /\ seat_locks' = seat_locks]_vars

\* C28 witness: two unlock-seat requests of session LA for seat 1 were both
\* answered 200; LA's lock on seat 1 is gone, its lock on seat 2 is not.
C28_UnlockedTwice ==
  \E i, j \in Requests :
    /\ i # j /\ IsUnlock(i) /\ IsUnlock(j) /\ Done(i) /\ Done(j)
    /\ req[i].lockId = "LA" /\ req[j].lockId = "LA"
    /\ req[i].out_seats = <<<<"1">>>> /\ req[j].out_seats = <<<<"1">>>>
    /\ req[i].status = 200 /\ req[j].status = 200
    /\ ~\E l \in seat_locks : l.locked_by = "LA" /\ SeatKeyOf(l) = <<"1">>
    /\ \E l \in seat_locks : l.locked_by = "LA" /\ SeatKeyOf(l) = <<"2">>

\* ------------------------------------------ GET /api/bus/:id/seats handler
\* The four lists of the response are kept as sets of seat keys: each is
\* built without duplicates and no claim is about their order.
\* the confirm requests that have booked seats and have been answered
BookedBefore ==
  {k \in Requests : /\ req[k].kind = "confirm" /\ req[k].pc = "done"
                     /\ req[k].status = 200 /\ ~req[k].duplicate}

\* retryOf (history): a booking-confirm that had succeeded when this request came
IssueGetBusSeats(i, tripId, lockId) ==
  /\ MayIssue(i)
  /\ req' = [req EXCEPT ![i] = [NoReq EXCEPT
               !.kind = "seats", !.pc = "seats_resolve", !.busId = TheBus,
               !.tripId = tripId, !.lockId = lockId,
               !.retryOf = IF BookedBefore = {} THEN 0
                           ELSE CHOOSE k \in BookedBefore : TRUE]]
  /\ UNCHANGED <<now, db, sms_outbox>>

\* resolveTripForBus, getBusCapacity; whatever is thrown is answered 500
SeatsResolve(i) ==
  /\ req[i].pc = "seats_resolve"
  /\ LET r == req[i]
         trip == resolveTripForBus(r.busId, r.tripId)
         capacity == getBusCapacity(r.busId)
     IN req' = [req EXCEPT ![i] =
          IF trip.err # "" THEN Returned(r, 500, trip.err)
          ELSE IF capacity = 0 THEN Returned(r, 500, "Bus not found")
          ELSE [r EXCEPT !.pc = "seats_booked", !.tripKey = trip.id]]
  /\ UNCHANGED <<now, db, sms_outbox>>

\* bookedSeats = listConfirmedSeatNumbersForBusTrip
SeatsBooked(i) ==
  /\ req[i].pc = "seats_booked"
  /\ req' = [req EXCEPT
       ![i].booked = listConfirmedSeatNumbersForBusTrip(req[i].busId, req[i].tripKey,
                                                        getBusCapacity(req[i].busId)),
       ![i].pc = "seats_locks"]
  /\ UNCHANGED <<now, db, sms_outbox>>

\* activeLocks = listActiveLocksForBusTrip, the two sets, available, the response
SeatsLocks(i) ==
  /\ req[i].pc = "seats_locks"
  /\ LET r == req[i]
         capacity == getBusCapacity(r.busId)
         activeLocks == {l \in listActiveLocksForBusTrip(r.busId, r.tripKey) :
                           normalizeSeatNumberRaw(l.seat_number, capacity) # NoSeat}
         own == {l \in activeLocks : r.lockId # "" /\ l.locked_by = r.lockId}
         ownLocked == {normalizeSeatNumberRaw(l.seat_number, capacity) : l \in own}
         lockedSeats == {normalizeSeatNumberRaw(l.seat_number, capacity) :
                           l \in activeLocks \ own}
         allSeats == {NumberToString(n) : n \in 1..capacity}
     IN req' = [req EXCEPT ![i] =
          [Returned(r, 200, "") EXCEPT
             !.available = {s \in allSeats : s \notin r.booked /\ s \notin lockedSeats},
             !.locked = lockedSeats,
             !.own_locked = ownLocked]]
  /\ UNCHANGED <<now, db, sms_outbox>>

HandleGetBusSeats(i) == SeatsResolve(i) \/ SeatsBooked(i) \/ SeatsLocks(i)

\* ---------- SpecSeats: the seat map read while seats are locked and booked
\* Session LA holds seats 1 and 2 and confirms seat 1; session LB asks for
\* seat 1; callers with either lockId or none read the seat map.
SeatsRequests == 3
SeatsLockIds == {"LA", "LB", ""}

InitSeats == InitHeld(SeatsRequests)
NextSeats ==
  \/ Tick
  \/ \E i \in Requests :
       \/ \E lockId \in SeatsLockIds : IssueGetBusSeats(i, NULL, lockId)
       \/ HandleGetBusSeats(i)
       \/ IssueLockSeat(i, <<"1">>, NULL, "LB")
       \/ HandleLockSeat(i)
       \/ IssueBookingConfirm(i, <<<<"1">>>>, NULL, "LA", "R1", 100, 0)
       \/ HandleBookingConfirm(i)
SpecSeats == InitSeats /\ [][NextSeats]_vars

\* ------------------------------------------------------------ the seat map
IsGetSeats(i) == req[i].kind = "seats"

\* C29: once a booking-confirm has succeeded, the lock rows it found as
\* proof of ownership are gone, and a seat map read for the same bus and trip
\* after that, whatever lockId the caller gives, has every seat of the
\* booking in booked and in none of available, locked and own_locked.
C29_BookedSeatsOnlyInBooked ==
  \A i \in Requests :
    (IsGetSeats(i) /\ Done(i) /\ req[i].status = 200 /\ req[i].retryOf # 0) =>
      \A s \in SeqToSet(req[req[i].retryOf].out_seats) :
        /\ s \in req[i].booked
        /\ s \notin req[i].available \cup req[i].locked \cup req[i].own_locked

\* C30: the seat map has available = the seats 1..capacity that are neither
\* in booked nor in locked, so available meets neither of them, and every
\* seat in own_locked is in available.
C30_SeatMapPartition ==
  \A i \in Requests :
    (IsGetSeats(i) /\ Done(i) /\ req[i].status = 200) =>
      /\ req[i].available =
           {NumberToString(n) : n \in 1..getBusCapacity(req[i].busId)}
             \ (req[i].booked \cup req[i].locked)
      /\ req[i].available \cap (req[i].booked \cup req[i].locked) = {}
      /\ req[i].own_locked \subseteq req[i].available

\* ------- SpecNullTrip: the bus after the end of its trip, without a new one
\* Seat 4 was booked for the bus's trip (or, when the bus never had a trip,
\* without one); the trip is ended, and the seat map, lock-seat, manual
\* booking and booking-confirm are asked about the bus with no trip named.
NullTripRequests == 2
NullTripSeats == {<<"3">>, <<"4">>}

InitNullTrip == InitAdminHeld(NullTripRequests)
NextNullTrip ==
  \/ Tick
  \/ \E i \in Requests :
       \/ IssueAdminEndTrip(i, "tok_admin", 1)
       \/ HandleAdminEndTrip(i)
       \/ IssueGetBusSeats(i, NULL, "")
       \/ HandleGetBusSeats(i)
       \/ \E seat \in NullTripSeats : IssueLockSeat(i, seat, NULL, "LB")
       \/ HandleLockSeat(i)
       \/ \E seat \in NullTripSeats :
            IssueAdminManualBooking(i, "tok_admin", seat, NULL, NoPrice)
       \/ HandleAdminManualBooking(i)
       \/ IssueBookingConfirm(i, <<<<"1">>>>, NULL, "LA", "R1", 100, 0)
       \/ HandleBookingConfirm(i)
SpecNullTrip == InitNullTrip /\ [][NextNullTrip]_vars

\* ------------------------------------------------------- trip-null mode
\* a confirmed booking without a trip on (bus, seat)
NullTripBooked(busId, seatKey) ==
  \E b \in bookings : /\ b.bus_id = busId /\ b.trip_id = NULL /\ Confirmed(b)
                      /\ SeatKeyOf(b) = seatKey
\* a step of request i that started at pc with no trip resolved
NullTripStep(i, pc) == req[i].pc = pc /\ req[i].tripKey = NULL /\ req'[i] # req[i]

\* C31: with no trip resolved, the seat map lists as booked exactly the
\* seats that have a confirmed booking with NULL trip_id, lock-seat and manual
\* booking answer seat-already-booked exactly for those seats, and the
\* conditional insert is refused exactly for those seats.  (SpecNullTrip)
C31_NullTripBookedAgreed ==
  [][\A i \in Requests :
       /\ NullTripStep(i, "seats_booked") =>
            req'[i].booked = {NumberToString(n) : n \in
                                {m \in 1..getBusCapacity(req[i].busId) :
                                   NullTripBooked(req[i].busId, NumberToString(m))}}
       /\ NullTripStep(i, "lock_booked") =>
            (req'[i].error = "Seat already booked"
               <=> NullTripBooked(req[i].busId, req[i].seatKeys[1]))
       /\ NullTripStep(i, "manual_booked") =>
            (req'[i].error = "Seat already booked"
               <=> NullTripBooked(req[i].busId, req[i].seatKeys[1]))
       /\ NullTripStep(i, "confirm_insert") =>
            (bookings' = bookings
               <=> NullTripBooked(req[i].busId, req[i].seatKeys[req[i].idx]))]_vars

\* ------------ SpecResolve: the trip resolver on the trips of two buses
\* trip_schedules holds up to MaxTrips trips of two buses, active or
\* completed in any mix; one call names a bus and a trip id, or no trip.
MaxTrips == 3
ResolveBuses == {TheBus, TheBus + 1}
TripRows == [bus_id : ResolveBuses, status : {"active", "completed"}]

InitResolve ==
  /\ now = 0
  /\ trip_schedules \in UNION {[1..k -> TripRows] : k \in 0..MaxTrips}
  /\ buses = [b \in ResolveBuses |-> [capacity |-> BusCapacity,
                                      available_seats |-> BusCapacity, price |-> 100]]
  /\ seat_locks = {}
  /\ next_lock_id = 1
  /\ bookings = {}
  /\ next_booking_id = 1
  /\ passengers = {}
  /\ next_passenger_id = 1
  /\ booking_receipts = {}
  /\ sms_outbox = << >>
  /\ auth_sessions = InitSessions
  /\ SchemaReady
  /\ \E busId \in ResolveBuses, tripId \in 0..(MaxTrips + 1) :
       req = <<[NoReq EXCEPT !.kind = "resolve", !.pc = "resolve_input",
                             !.busId = busId, !.tripId = tripId]>>

\* const trip = await resolveTripForBus(env, busId, tripId)
ResolveTrip(i) ==
  /\ req[i].pc = "resolve_input"
  /\ LET trip == resolveTripForBus(req[i].busId, req[i].tripId) IN
     req' = [req EXCEPT ![i] =
       IF trip.err # "" THEN Returned(req[i], 400, trip.err)
       ELSE [Returned(req[i], 200, "") EXCEPT !.trip_id = trip.id]]
  /\ UNCHANGED <<now, db, sms_outbox>>

NextResolve == \E i \in Requests : ResolveTrip(i)
SpecResolve == InitResolve /\ [][NextResolve]_vars

\* ------------------------------------------------------------ the resolver
IsResolve(i) == req[i].kind = "resolve" /\ Done(i)
ActiveTripsOfBus(busId) ==
  {t \in TripIds : trip_schedules[t].bus_id = busId /\ trip_schedules[t].status = "active"}

\* C32: with a tripId the resolver returns that trip exactly when it exists,
\* is of the bus and is active, and throws otherwise; without one it returns
\* the active trip of the bus with the highest id, or null when the bus has
\* no active trip.
C32_ResolverReturnsNamedOrNewestActive ==
  \A i \in Requests : IsResolve(i) =>
    IF req[i].tripId # NULL
    THEN IF req[i].tripId \in ActiveTripsOfBus(req[i].busId)
         THEN req[i].status = 200 /\ req[i].trip_id = req[i].tripId
         ELSE req[i].status = 400 /\ req[i].error # ""
    ELSE /\ req[i].status = 200
         /\ IF ActiveTripsOfBus(req[i].busId) = {} THEN req[i].trip_id = NULL
            ELSE /\ req[i].trip_id \in ActiveTripsOfBus(req[i].busId)
                 /\ \A t \in ActiveTripsOfBus(req[i].busId) : t <= req[i].trip_id

\* C32 witness: the bus has the active trips 1 and 3, trip 2 is another
\* bus's, and the call without a tripId returned trip 3.
C32_NewestOfTwoActive ==
  \E i \in Requests :
    /\ IsResolve(i) /\ req[i].tripId = NULL /\ req[i].trip_id = 3
    /\ ActiveTripsOfBus(req[i].busId) = {1, 3}
    /\ Len(trip_schedules) = 3 /\ trip_schedules[2].status = "active"

\* ------------------------------------------------- the webhook fallback
StoredReceipt(bookingId) == \E x \in booking_receipts : x.booking_id = bookingId

\* C33: a webhook fallback that reads a booking_receipts row for its booking
\* answers at once, with no call of the receipt service and no SMS; the
\* receipt service and the SMS gateway are called only by a fallback that
\* read no row, and only a fallback's SMS step adds to the SMS sent.  (SpecHook)
C33_StoredReceiptSilencesFallback ==
  [][\A i \in Requests : (IsWebhook(i) /\ req'[i] # req[i]) =>
       /\ (req[i].pc = "hook_receipt" /\ StoredReceipt(req[i].createdBookingIds[1])) =>
            /\ req'[i].pc = "done" /\ req'[i].status = 200
            /\ req'[i].effects = req[i].effects
            /\ sms_outbox' = sms_outbox
       /\ (req[i].pc = "hook_receipt" /\ ~StoredReceipt(req[i].createdBookingIds[1])) =>
            req'[i].pc = "hook_gas" /\ ~req'[i].existingReceipt
       /\ req[i].pc \in {"hook_gas", "hook_save", "hook_sms"} => ~req[i].existingReceipt
       /\ req[i].pc # "hook_sms" => sms_outbox' = sms_outbox]_vars

\* C33 witness: a second charge.success webhook, issued after the first had
\* stored a receipt and sent its SMS, found the row and called nothing.
C33_SecondWebhookFoundReceipt ==
  \E i, j \in Requests :
    /\ IsWebhook(i) /\ Done(i) /\ {"gas", "sms"} \subseteq req[i].effects
    /\ IsWebhook(j) /\ Done(j) /\ req[j].retryOf = i /\ req[j].status = 200
    /\ req[j].effects = {"status"}
    /\ StoredReceipt(1) /\ Len(sms_outbox) = 1

\* ---------------------------------------- ensureOperationalSchema, fetch
\* JavaScript runs one job at a time.  A request's arrival and a database
\* answer are tasks; the continuations of the functions awaiting a promise
\* that has settled run before the next task is taken.
Settled(p) == promises[p].state # "pending"
\* the requests whose await can continue
Resumable == {i \in Requests : req[i].pc \in {"schema_own", "schema_wait"}
                               /\ Settled(req[i].awaiting)}

\* an entry that never finds the latch set: every call starts the body
FetchEnterUnlatched(i) ==
  /\ MayIssue(i)
  /\ Resumable = {}
  /\ promises' = Append(promises, [state |-> "pending", stmt |-> 0])
  /\ schemaInitPromise' = Len(promises) + 1
  /\ req' = [req EXCEPT ![i] = [NoReq EXCEPT !.kind = "fetch", !.pc = "schema_own",
                                            !.awaiting = Len(promises) + 1]]
  /\ UNCHANGED <<now, trips_buses, lock_tables, booking_tables, passenger_tables,
                 booking_receipts, sms_outbox, auth_sessions>>

\* fetch up to the first await of ensureOperationalSchema: with the latch set
\* the call awaits the promise it holds; otherwise it starts the body, stores
\* its promise in the latch and awaits it inside the try
FetchEnter(i) ==
  /\ MayIssue(i)
  /\ Resumable = {}
  /\ IF schemaInitPromise # NULL
     THEN /\ req' = [req EXCEPT ![i] = [NoReq EXCEPT !.kind = "fetch", !.pc = "schema_wait",
                                                    !.awaiting = schemaInitPromise]]
          /\ UNCHANGED schema
     ELSE /\ promises' = Append(promises, [state |-> "pending", stmt |-> 0])
          /\ schemaInitPromise' = Len(promises) + 1
          /\ req' = [req EXCEPT ![i] = [NoReq EXCEPT !.kind = "fetch", !.pc = "schema_own",
                                                    !.awaiting = Len(promises) + 1]]
  /\ UNCHANGED <<now, trips_buses, lock_tables, booking_tables, passenger_tables,
                 booking_receipts, sms_outbox, auth_sessions>>

\* the database answers a statement of the body: the body goes on to its
\* next statement, returns after its last, or throws
SchemaStatement(p) ==
  /\ promises[p].state = "pending"
  /\ Resumable = {}
  /\ \E ok \in BOOLEAN :
       promises' = [promises EXCEPT ![p] =
         IF ~ok THEN [@ EXCEPT !.state = "rejected"]
         ELSE [state |-> IF @.stmt + 1 = SchemaStatements THEN "fulfilled" ELSE "pending",
               stmt |-> @.stmt + 1]]
  /\ UNCHANGED <<now, trip_schedules, buses, lock_tables, booking_tables, passenger_tables,
                 booking_receipts, sms_outbox, auth_sessions, schemaInitPromise, req>>

\* a catch block that leaves the latch as it is
SchemaResumeKeepingLatch(i) ==
  /\ i \in Resumable
  /\ req' = [req EXCEPT ![i] =
       IF promises[req[i].awaiting].state = "fulfilled"
       THEN [Returned(req[i], 200, "") EXCEPT !.awaiting = NULL]
       ELSE [Returned(req[i], 500, "Error") EXCEPT !.awaiting = NULL]]
  /\ UNCHANGED <<now, db, sms_outbox>>

\* the continuation of an await: the call returns and the request is
\* served, or the rejection is thrown on to fetch's catch, which answers 500;
\* the call that started the body first sets the latch back to null
SchemaResume(i) ==
  /\ i \in Resumable
  /\ req' = [req EXCEPT ![i] =
       IF promises[req[i].awaiting].state = "fulfilled"
       THEN [Returned(req[i], 200, "") EXCEPT !.awaiting = NULL]
       ELSE [Returned(req[i], 500, "Error") EXCEPT !.awaiting = NULL]]
  /\ schemaInitPromise' =
       IF req[i].pc = "schema_own" /\ promises[req[i].awaiting].state = "rejected"
       THEN NULL ELSE schemaInitPromise
  /\ UNCHANGED <<now, trips_buses, lock_tables, booking_tables, passenger_tables,
                 booking_receipts, sms_outbox, auth_sessions, promises>>

\* ------------------- SpecSchema: the first requests of a fresh process
SchemaRequests == 3

InitSchema ==
  /\ now = 0
  /\ trip_schedules \in InitTrips
  /\ buses = [b \in {TheBus} |-> [capacity |-> BusCapacity, available_seats |-> BusCapacity,
                                  price |-> 100]]
  /\ seat_locks = {}
  /\ next_lock_id = 1
  /\ bookings = {}
  /\ next_booking_id = 1
  /\ passengers = {}
  /\ next_passenger_id = 1
  /\ booking_receipts = {}
  /\ sms_outbox = << >>
  /\ auth_sessions = InitSessions
  /\ schemaInitPromise = NULL
  /\ promises = << >>
  /\ req = [i \in 1..SchemaRequests |-> NoReq]

NextSchema ==
  \/ \E i \in Requests : FetchEnter(i)
  \/ \E p \in DOMAIN promises : SchemaStatement(p)
  \/ \E i \in Requests : SchemaResume(i)
SpecSchema == InitSchema /\ [][NextSchema]_vars

\* ------------------------------------------------------------ the latch
Running == {p \in DOMAIN promises : promises[p].state = "pending"}
Succeeded == {p \in DOMAIN promises : promises[p].state = "fulfilled"}
Entering(i) == req[i].pc = "idle" /\ req'[i].pc # "idle"

\* C34: at most one run of the initialisation body is under way at any
\* time; a request that arrives during a run starts none and awaits that
\* run; once a run has succeeded, no call starts a run or executes a
\* statement of one.
C34_OneRunAtATime ==
  [][/\ Cardinality(Running') <= 1
     /\ \A i \in Requests : (Entering(i) /\ Running # {}) =>
          /\ promises' = promises
          /\ req'[i].awaiting \in Running
     /\ Succeeded # {} => promises' = promises]_vars

\* C34 witness: three requests came while one run was under way; the run
\* succeeded, it is the only run there has been, and all three were served.
C34_ThreeRequestsOneRun ==
  /\ Len(promises) = 1 /\ promises[1].state = "fulfilled"
  /\ \A i \in 1..3 : Done(i) /\ req[i].status = 200

\* C35: a request that arrives after a run has failed does not await the
\* failed run: when no run is under way and none has succeeded it starts a
\* fresh one; the latch, once it holds a run that succeeded, holds it for
\* good, whatever failure is still being handled.
C35_FailureRewindsLatch ==
  [][/\ \A i \in Requests : Entering(i) =>
          /\ promises'[req'[i].awaiting].state # "rejected"
          /\ (Running = {} /\ Succeeded = {}) =>
               /\ Len(promises') = Len(promises) + 1
               /\ req'[i].awaiting = Len(promises')
               /\ schemaInitPromise' = Len(promises')
     /\ (schemaInitPromise # NULL /\ schemaInitPromise \in Succeeded) =>
          schemaInitPromise' = schemaInitPromise]_vars

\* C35 witness: the first run failed and its requests were answered 500; a
\* later request started a second run, which succeeded and is in the latch.
C35_RetriedAfterFailure ==
  /\ Len(promises) = 2
  /\ promises[1].state = "rejected" /\ promises[2].state = "fulfilled"
  /\ schemaInitPromise = 2
  /\ \E i, j \in Requests : /\ Done(i) /\ req[i].status = 500
                            /\ Done(j) /\ req[j].status = 200

\* ------------------------------------------------ rows of an ended trip
NewLocks == {l \in seat_locks' : l.id \notin {x.id : x \in seat_locks}}
NewBookings == {b \in bookings' : b.id \notin {x.id : x \in bookings}}
EndedTrips == {t \in TripIds : trip_schedules[t].status # "active"}
EndTripAnswered(t) == \E i \in Requests : /\ req[i].kind = "endtrip" /\ req[i].tripId = t
                                          /\ Done(i) /\ req[i].status = 200

\* C37: no seat_locks row and no bookings row is created with the id of a
\* trip that is not active, and once end-trip has answered for a trip no
\* lock of that trip is in seat_locks, however lock-seat and booking-confirm
\* requests that resolved the trip beforehand interleave with end-trip.
C37_NoRowsForEndedTrip ==
  [][/\ \A l \in NewLocks : l.trip_id \notin EndedTrips
     /\ \A b \in NewBookings : b.trip_id \notin EndedTrips
     /\ \A t \in TripIds : EndTripAnswered(t)' =>
          \A l \in seat_locks' : l.trip_id # t]_vars

\* ---- SpecSms: a booking-confirm under R1 and the webhooks of its payment
SmsRequests == 2

InitSms == InitHeld(SmsRequests)
NextSms ==
  \E i \in Requests :
    \/ IssueBookingConfirm(i, <<<<"1">>>>, NULL, "LA", "R1", 100, 0)
    \/ HandleBookingConfirm(i)
    \/ IssueWebhook(i, "B1", hmacSha512Hex("B1"))
    \/ HandlePaystackWebhook(i)
SpecSms == InitSms /\ [][NextSms]_vars

\* the confirmation messages handed to the SMS gateway for the bookings of a
\* payment reference
SmsOfReference(reference) ==
  {k \in DOMAIN sms_outbox :
     /\ sms_outbox[k].source \in {"confirm", "webhook"}
     /\ \E b \in BookingsOfRef(reference) : b.id = sms_outbox[k].booking_id}

\* C38: for every payment reference at most one confirmation SMS is sent
\* in all, by the booking-confirm and by every charge.success webhook of the
\* reference together, whatever the receipt service answers.
C38_OneSmsPerReference ==
  \A b \in bookings : Cardinality(SmsOfReference(b.external_ref[1])) <= 1

\* ----- SpecCancel: webhooks about a booking of R1 that has been cancelled
\* The bookings table holds a row of reference R1 for seat 1 with the
\* status 'cancelled', one of the three statuses the booking list filters by.
CancelRequests == 2

InitCancel ==
  /\ now = 0
  /\ trip_schedules \in InitTrips
  /\ buses = [b \in {TheBus} |-> [capacity |-> BusCapacity, available_seats |-> BusCapacity,
                                  price |-> 100]]
  /\ seat_locks = {}
  /\ next_lock_id = 1
  /\ bookings = {[id |-> 1, passenger_id |-> 1, bus_id |-> TheBus,
                  trip_id |-> Len(trip_schedules), seat_number |-> <<"1">>,
                  price_paid |-> 100, status |-> "cancelled", external_ref |-> <<"R1">>]}
  /\ next_booking_id = 2
  /\ passengers = {1}
  /\ next_passenger_id = 2
  /\ booking_receipts = {}
  /\ sms_outbox = << >>
  /\ auth_sessions = InitSessions
  /\ SchemaReady
  /\ req = [i \in 1..CancelRequests |-> NoReq]

NextCancel ==
  \E i \in Requests :
    \/ \E rawBody \in WebhookBodies : IssueWebhook(i, rawBody, hmacSha512Hex(rawBody))
    \/ HandlePaystackWebhook(i)
SpecCancel == InitCancel /\ [][NextCancel]_vars

\* C39: a step of a webhook changes the status of a booking only from
\* 'pending' to 'confirmed'; a booking that is 'cancelled' is 'cancelled'
\* after every step of every charge.success webhook of its reference.
C39_CancelledStaysCancelled ==
  [][\A b \in bookings : \A x \in bookings' :
       x.id = b.id /\ x.status # b.status
         => b.status = "pending" /\ x.status = "confirmed"]_vars

====
